---- MODULE Spec2Model ----
(***************************************************************************)
(* A model of bgpipe's pipeline orchestrator: the stage list built by      *)
(* AddStage / parseArgs, the wiring done by Attach / attach, and the       *)
(* start / shutdown protocol of Run / Start with its four wait-groups.     *)
(* It also covers the Extio adapter (Attach, ReadSingle, ReadBuf,           *)
(* ReadStream, SendMsg, WriteStream, OutputClose) and tcp_handle.          *)
(*                                                                         *)
(* b.Stages is a Go slice indexed from 0; here it is a sequence whose      *)
(* element i+1 is the Go element i (see At / Len).                         *)
(***************************************************************************)
EXTENDS Integers, Sequences, FiniteSets, TLC

VARIABLES
    Stages,     \* b.Stages: sequence of stage records, Nil for an empty slot
    nid,        \* number of stage objects created so far (object identity)
    K,          \* b.K: the global options reverse / silent / stdin
    argv,       \* the arguments handed to parseArgs
    pc,         \* position of the operation under way
    ret,        \* what the last operation returned
    wg,         \* the wait-groups wg_lwrite, wg_lread, wg_rwrite, wg_rread
    Autos,      \* the automatic stages attached to the pipe
    auto_stdin, \* b.auto_stdin
    auto_stdout, \* b.auto_stdout
    rt,         \* per stage object: enabled flag, run state, launches
    ctx,        \* b.Ctx: done flag and cause
    hist,       \* history of the Cancel calls made
    closed,     \* per stream side: how often a watcher closed it
    started,    \* has b.Start run, i.e. are the watchers spawned?
    events,     \* number of wait events dispatched so far
    calls,      \* the steps Run has performed, in order
    sb,         \* the Extio's StageBase: IsBidir, IsLast, IsLeft, the flags K
    opt,        \* eio.opt_raw, opt_mrt, opt_read, opt_write, opt_copy, ...
    InputL,     \* eio.InputL
    InputR,     \* eio.InputR
    InputD,     \* eio.InputD
    In,         \* per pipe input: the messages written to it, in order
    buf,        \* eio.buf, the bytes ReadBuf keeps between calls
    obs,        \* the bytes given to ReadBuf, the records it handed on
    Output,     \* eio.Output: the buffers queued, closed or not
    Callback,   \* eio.Callback: registered, dropped
    th,         \* the goroutines using the egress and where each one is
    rs,         \* ReadStream: len(buf), the reads made
    tcp         \* tcp_handle: the connection, the two pumps, the result

cfgVars == <<Stages, nid, K, argv, pc, ret>>
attVars == <<wg, Autos, auto_stdin, auto_stdout>>
runVars == <<rt, ctx, hist, closed, started, events, calls>>
eioVars == <<sb, opt, InputL, InputR, InputD, In, buf, obs>>
outVars == <<Output, Callback, th>>
ioVars == <<sb, opt, InputL, InputR, InputD, In, buf, obs, Output, Callback,
            th, rs, tcp>>
vars == <<Stages, nid, K, argv, pc, ret, wg, Autos, auto_stdin, auto_stdout,
          rt, ctx, hist, closed, started, events, calls,
          sb, opt, InputL, InputR, InputD, In, buf, obs, Output, Callback,
          th, rs, tcp>>

\* -------------------------------------------------------------- bounds
MaxStages == 3
MaxArgs == 4
MaxRunStages == 2
MaxCancels == 2
MaxEvents == 2
MaxMsgs == 1
MaxFed == 4
MaxChunk == 2
MaxReads == 8
MaxSends == 2
MaxQueue == 1

\* ------------------------------------------------------------ constants
\* a nil stage pointer (no stage object has id 0)
Nil == [id |-> 0]
NoErr == "ok"
ErrStageCmd == "ErrStageCmd"
ErrStageDiff == "ErrStageDiff"
ErrNeedsArg == "needs an argument"

\* Go slice view of a sequence: element i of the Go slice
At(S, i) == S[i + 1]
Max(a, b) == IF a >= b THEN a ELSE b

\* ------------------------------------------------------ stage registry
\* The stage commands of the repository (b.repo) and, per command, the
\* positional arguments it declares (s.Args): none (nil), all arguments
\* (an empty, non-nil list) or a list of names.
Cmds == {"tcp", "mrt", "stdout", "stdin", "exec"}

RepoArgs(cmd) ==
    CASE cmd = "tcp" -> [nil |-> FALSE, names |-> <<"addr">>]
      [] cmd = "mrt" -> [nil |-> FALSE, names |-> <<"path">>]
      [] cmd = "exec" -> [nil |-> FALSE, names |-> <<>>]
      [] OTHER -> [nil |-> TRUE, names |-> <<>>]

NoOpt == [Bidir |-> FALSE, IsProducer |-> FALSE, IsConsumer |-> FALSE,
          IsStdin |-> FALSE, IsStdout |-> FALSE]

RepoOpt(cmd) ==
    CASE cmd = "tcp" -> [NoOpt EXCEPT !.IsProducer = TRUE, !.IsConsumer = TRUE]
      [] cmd = "mrt" -> [NoOpt EXCEPT !.IsProducer = TRUE]
      [] cmd = "stdout" -> [NoOpt EXCEPT !.Bidir = TRUE, !.IsStdout = TRUE]
      [] cmd = "stdin" -> [NoOpt EXCEPT !.Bidir = TRUE, !.IsStdin = TRUE,
                                        !.IsProducer = TRUE]
      [] OTHER -> [NoOpt EXCEPT !.Bidir = TRUE]

NoKv == [left |-> FALSE, right |-> FALSE, in |-> "", wait |-> <<>>]

\* b.NewStage(cmd): a fresh stage object for cmd, or Nil for an unknown cmd
NewStage(cmd, id) ==
    IF cmd \notin Cmds THEN Nil
    ELSE [id |-> id, Cmd |-> cmd, Index |-> 0, Name |-> cmd, argl |-> <<>>,
          Args |-> RepoArgs(cmd), Opt |-> RepoOpt(cmd), Kv |-> NoKv,
          IsFirst |-> FALSE, IsLast |-> FALSE, IsLeft |-> FALSE,
          IsRight |-> FALSE, Dir |-> "", Up |-> "", Down |-> "",
          inputs |-> <<>>, startOn |-> {}, attached |-> FALSE]

\* ------------------------------------------------------------- AddStage
\* the index AddStage works on: idx <= 0 means append
AddIdx(S, idx) == IF idx <= 0 THEN Max(1, Len(S)) ELSE idx

\* idx already holds a stage
Holds(S, idx) == idx < Len(S) /\ At(S, idx) # Nil

\* a cmd check that accepts any cmd
SameCmd_Any(s, cmd) == TRUE
\* the cmd check on an existing stage
SameCmd(s, cmd) == s.Cmd = cmd

\* b.Stages grown with nil slots until idx is a valid index
Grow(S, idx) ==
    IF idx >= Len(S) THEN S \o [i \in 1..(idx + 1 - Len(S)) |-> Nil] ELSE S

\* AddStage(idx, cmd) on stage list S with n objects created so far:
\* the new list, the stage returned (its id, 0 for nil) and the error
AddStage(S, n, idx0, cmd) ==
    LET idx == AddIdx(S, idx0) IN
    IF Holds(S, idx)
    THEN IF SameCmd(At(S, idx), cmd)
         THEN [Stages |-> S, nid |-> n, s |-> At(S, idx).id, idx |-> idx,
               err |-> NoErr]
         ELSE [Stages |-> S, nid |-> n, s |-> 0, idx |-> idx,
               err |-> ErrStageDiff]
    ELSE IF NewStage(cmd, n + 1) = Nil
         THEN [Stages |-> S, nid |-> n, s |-> 0, idx |-> idx,
               err |-> ErrStageCmd]
         ELSE [Stages |-> [Grow(S, idx) EXCEPT ![idx + 1] =
                              [NewStage(cmd, n + 1) EXCEPT !.Index = idx]],
               nid |-> n + 1, s |-> n + 1, idx |-> idx, err |-> NoErr]

\* the commands and indices the AddStage calls are drawn from
CallCmds == {"tcp", "stdout", "bogus"}
CallIdx == (0 - 1)..MaxStages

\* one call of AddStage(idx, cmd)
CallAddStage(idx, cmd) ==
    LET r == AddStage(Stages, nid, idx, cmd) IN
    /\ pc = "api"
    /\ Len(r.Stages) <= MaxStages + 1
    /\ Stages' = r.Stages
    /\ nid' = r.nid
    /\ ret' = [op |-> "AddStage", idx |-> idx, cmd |-> cmd, s |-> r.s,
               err |-> r.err, before |-> Stages]
    /\ UNCHANGED <<K, argv, pc>>
    /\ UNCHANGED attVars
    /\ UNCHANGED runVars
    /\ UNCHANGED ioVars

NoK == [reverse |-> FALSE, silent |-> FALSE, stdin |-> FALSE]
NoRet == [op |-> "none"]

\* no Extio, no ReadStream and no tcp_handle at work
NoOpts == [raw |-> FALSE, mrt |-> FALSE, read |-> FALSE, write |-> FALSE,
           copy |-> FALSE, pardon |-> FALSE, type |-> {}]
NoSb == [IsBidir |-> FALSE, IsLast |-> FALSE, IsLeft |-> FALSE, k |-> NoOpts]
NoObs == [handed |-> <<>>, fed |-> <<>>]
InitEio ==
    /\ sb = NoSb
    /\ opt = NoOpts
    /\ InputL = "nil"
    /\ InputR = "nil"
    /\ InputD = "nil"
    /\ In = [inL |-> <<>>, inR |-> <<>>]
    /\ buf = <<>>
    /\ obs = NoObs
InitOut ==
    /\ Output = [q |-> <<>>, closed |-> FALSE, closes |-> 0]
    /\ Callback = [set |-> FALSE, dropped |-> FALSE]
    /\ th = <<>>
InitIo ==
    /\ InitEio
    /\ InitOut
    /\ rs = <<>>
    /\ tcp = <<>>

\* the pipeline as NewBgpipe leaves it, apart from Stages and K
InitRest ==
    /\ InitIo
    /\ wg = [lwrite |-> 0, lread |-> 0, rwrite |-> 0, rread |-> 0]
    /\ Autos = <<>>
    /\ auto_stdin = Nil
    /\ auto_stdout = Nil
    /\ rt = <<>>
    /\ ctx = [done |-> FALSE, cause |-> "nil"]
    /\ hist = [n |-> 0, first |-> "none", firstNonNil |-> "none"]
    /\ closed = [linput |-> 0, rinput |-> 0, loutput |-> 0, routput |-> 0]
    /\ started = FALSE
    /\ events = 0
    /\ calls = <<>>

InitAddStage ==
    /\ InitRest
    /\ Stages = <<>>
    /\ nid = 0
    /\ K = NoK
    /\ argv = <<>>
    /\ pc = "api"
    /\ ret = NoRet

NextAddStage == \E idx \in CallIdx, cmd \in CallCmds : CallAddStage(idx, cmd)

SpecAddStage == InitAddStage /\ [][NextAddStage]_vars

\* C6: AddStage on an index that already holds a stage returns that same
\* stage when the cmd is the stage's cmd and fails with ErrStageDiff
\* otherwise; whenever it fails (ErrStageDiff, ErrStageCmd) the stage list
\* is exactly the list before the call, and so it is when the existing
\* stage is returned.
C6_AddStageExisting ==
    ret.op = "AddStage" =>
        LET idx == AddIdx(ret.before, ret.idx)
            held == Holds(ret.before, idx)
        IN /\ (held /\ At(ret.before, idx).Cmd = ret.cmd) =>
                  /\ ret.err = NoErr
                  /\ ret.s = At(ret.before, idx).id
                  /\ Stages = ret.before
           /\ (held /\ At(ret.before, idx).Cmd # ret.cmd) =>
                  /\ ret.err = ErrStageDiff
                  /\ ret.s = 0
           /\ (~held /\ ret.cmd \notin Cmds) => ret.err = ErrStageCmd
           /\ ret.err # NoErr => Stages = ret.before

\* a conflicting AddStage on a list that holds two stages
C6_Witness ==
    /\ ret.op = "AddStage"
    /\ ret.err = ErrStageDiff
    /\ Len(Stages) = 3
    /\ At(Stages, 1) # Nil
    /\ At(Stages, 2) # Nil

\* ------------------------------------------------------------ parseArgs
\* the tokens an argv is made of
AddrTok == "192.0.2.1:179"
FileTok == "dump.mrt"
FlagTok == "--left"
Tokens == {"--", "stdout", "exec", "tcp", AddrTok, FileTok, FlagTok}

IsAddr(tok) == tok = AddrTok
IsFile(tok) == tok = FileTok
IsFlag(tok) == tok = FlagTok

\* the tokens of args before its first "--", and the tokens after it
RECURSIVE UpToSep(_)
UpToSep(args) ==
    IF args = <<>> \/ Head(args) = "--" THEN <<>>
    ELSE <<Head(args)>> \o UpToSep(Tail(args))

AfterSep(args) ==
    LET n == Len(UpToSep(args)) IN
    IF n >= Len(args) THEN <<>> ELSE SubSeq(args, n + 2, Len(args))

\* StageBase.parseArgs(args): the flags are parsed into the stage's K, the
\* declared positional arguments are taken, the rest is returned unused
StageParseArgs(s, args) ==
    LET flags == SelectSeq(args, IsFlag)
        sargs == SelectSeq(args, LAMBDA a : ~IsFlag(a))
        s1 == [s EXCEPT !.Kv.left = @ \/ Len(flags) > 0,
                        !.argl = @ \o flags]
        need == Len(s.Args.names)
    IN IF s.Args.nil
       THEN [s |-> s1, unused |-> sargs, err |-> NoErr]
       ELSE IF need = 0
       THEN [s |-> [s1 EXCEPT !.argl = @ \o sargs], unused |-> <<>>,
             err |-> NoErr]
       ELSE IF Len(sargs) < need
       THEN [s |-> [s1 EXCEPT !.argl = @ \o sargs], unused |-> <<>>,
             err |-> ErrNeedsArg]
       ELSE [s |-> [s1 EXCEPT !.argl = @ \o SubSeq(sargs, 1, need)],
             unused |-> SubSeq(sargs, need + 1, Len(sargs)), err |-> NoErr]

\* the index parseArgs hands to AddStage in loop iteration idx
StageIdx(idx) == idx

\* the loop of Bgpipe.parseArgs from iteration idx on, over the remaining
\* args, on stage list S with n objects created
RECURSIVE ParseLoop(_, _, _, _)
ParseLoop(args, idx, S, n) ==
    IF args = <<>> THEN [Stages |-> S, nid |-> n, err |-> NoErr]
    ELSE IF Head(args) = "--" THEN ParseLoop(Tail(args), idx + 1, S, n)
    ELSE
      LET special == IsAddr(Head(args)) \/ IsFile(Head(args))
          cmd == IF IsAddr(Head(args)) THEN "tcp"
                 ELSE IF IsFile(Head(args)) THEN "mrt" ELSE Head(args)
          args1 == IF special THEN args ELSE Tail(args)
          r == AddStage(S, n, StageIdx(idx), cmd)
      IN IF r.err # NoErr THEN [Stages |-> r.Stages, nid |-> r.nid, err |-> r.err]
         ELSE
           LET p == StageParseArgs(At(r.Stages, r.idx), UpToSep(args1))
               S2 == [r.Stages EXCEPT ![r.idx + 1] = p.s]
           IN IF p.err # NoErr THEN [Stages |-> S2, nid |-> r.nid, err |-> p.err]
              ELSE ParseLoop(p.unused \o AfterSep(args1), idx + 1, S2, r.nid)

\* Bgpipe.parseArgs(argv), the global flags already taken
ParseArgs ==
    LET r == ParseLoop(argv, 0, Stages, nid) IN
    /\ pc = "parse"
    /\ Stages' = r.Stages
    /\ nid' = r.nid
    /\ ret' = [op |-> "parseArgs", err |-> r.err]
    /\ pc' = "parsed"
    /\ UNCHANGED <<K, argv>>
    /\ UNCHANGED attVars
    /\ UNCHANGED runVars
    /\ UNCHANGED ioVars

\* every argv of at most MaxArgs tokens
Argvs == UNION {[1..n -> Tokens] : n \in 0..MaxArgs}

InitParse ==
    /\ InitRest
    /\ Stages = <<>>
    /\ nid = 0
    /\ K = NoK
    /\ argv \in Argvs
    /\ pc = "parse"
    /\ ret = NoRet

NextParse == ParseArgs

SpecParse == InitParse /\ [][NextParse]_vars

\* the segments of an argv: the maximal runs of tokens between "--"
RECURSIVE Segments(_)
Segments(args) ==
    IF args = <<>> THEN <<>>
    ELSE <<UpToSep(args)>> \o Segments(AfterSep(args))

\* the command a segment stands for, and the tokens it leaves to its stage
SegCmd(seg) ==
    IF IsAddr(Head(seg)) THEN "tcp" ELSE IF IsFile(Head(seg)) THEN "mrt"
    ELSE Head(seg)
SegArgs(seg) == IF IsAddr(Head(seg)) \/ IsFile(Head(seg)) THEN seg ELSE Tail(seg)

\* a stage segment: non-empty, starts with a stage command, an address or
\* a file, and its stage takes every remaining token
IsStageSegment(seg) ==
    /\ seg # <<>>
    /\ SegCmd(seg) \in Cmds
    /\ LET a == RepoArgs(SegCmd(seg))
           pos == SelectSeq(SegArgs(seg), LAMBDA x : ~IsFlag(x))
       IN IF a.nil THEN pos = <<>>
          ELSE a.names = <<>> \/ Len(pos) = Len(a.names)

\* an argv made of stage segments separated by single "--"
IsStageArgv(args) ==
    /\ args # <<>>
    /\ args[Len(args)] # "--"
    /\ \A i \in 1..Len(Segments(args)) : IsStageSegment(Segments(args)[i])

\* the tokens a stage holds after parsing the arguments args
ParsedArgl(args) ==
    SelectSeq(args, IsFlag) \o SelectSeq(args, LAMBDA x : ~IsFlag(x))

\* C7: for an argv of n stage segments separated by "--", parseArgs
\* succeeds and leaves n distinct stages, the stage of segment i at index
\* i with Index i, cmd the segment's command and exactly the segment's own
\* tokens parsed against it.
C7_OneStagePerSegment ==
    (pc = "parsed" /\ IsStageArgv(argv)) =>
        LET segs == Segments(argv) IN
        /\ ret.err = NoErr
        /\ Len(Stages) = Len(segs) + 1
        /\ nid = Len(segs)
        /\ \A i \in 1..Len(segs) :
              /\ At(Stages, i) # Nil
              /\ At(Stages, i).Index = i
              /\ At(Stages, i).Cmd = SegCmd(segs[i])
              /\ At(Stages, i).argl = ParsedArgl(SegArgs(segs[i]))
        /\ \A i, j \in 1..Len(segs) :
              i # j => At(Stages, i).id # At(Stages, j).id

\* --------------------------------------------------------------- attach
ErrLR == "ErrLR"
ErrFirstOrLast == "ErrFirstOrLast"
ErrInject == "ErrInject"
ErrNoStage == "bgpipe needs at least 1 stage"

EVENT_START == "START"
EVENT_ESTABLISHED == "ESTABLISHED"
EVENT_EOR == "EOR"

\* b.StageCount(): the number of stage slots after the reserved slot 0
StageCount(S) == Max(0, Len(S) - 1)

\* first / last?
FirstLast(s, S) ==
    IF s.Index = 1 THEN [s EXCEPT !.IsFirst = TRUE]
    ELSE IF s.Index = StageCount(S) THEN [s EXCEPT !.IsLast = TRUE]
    ELSE s

\* the default without its exceptions
DefaultRight_Always(s) == TRUE
\* the direction of a stage given neither --left nor --right: R, but for
\* a producing last stage and a non-producing first stage
DefaultRight(s) ==
    IF s.IsLast /\ s.Opt.IsProducer THEN FALSE
    ELSE IF s.IsFirst /\ ~s.Opt.IsProducer THEN FALSE
    ELSE TRUE

\* may the stage be attached in both directions?
BidirOk(s) == s.Opt.Bidir

\* left / right?
LeftRight(s) ==
    LET l == s.Kv.left
        r == s.Kv.right
    IN IF l /\ r
       THEN [s |-> [s EXCEPT !.IsLeft = TRUE, !.IsRight = TRUE],
             err |-> IF BidirOk(s) THEN NoErr ELSE ErrLR]
       ELSE IF l = r
       THEN [s |-> [s EXCEPT !.IsRight = DefaultRight(s),
                             !.IsLeft = ~DefaultRight(s)],
             err |-> NoErr]
       ELSE [s |-> [s EXCEPT !.IsLeft = l, !.IsRight = r], err |-> NoErr]

\* set s.Dir and the upstream / downstream lines
SetDir(s) ==
    IF s.IsLeft /\ s.IsRight THEN [s EXCEPT !.Dir = "LR"]
    ELSE IF s.IsLeft THEN [s EXCEPT !.Dir = "L", !.Up = "L", !.Down = "R"]
    ELSE [s EXCEPT !.Dir = "R", !.Up = "R", !.Down = "L"]

\* a pipe input as AddInput(dir) returns it
NewInput(dir) ==
    [Dir |-> dir, Id |-> 0, FilterValue |-> 0, Reverse |-> FALSE,
     CallbackFilter |-> "NONE"]

\* the inputs the stage's own Attach registers (Extio.Attach): both for a
\* stage attached in both directions, else the one of its direction
ChildInputs(s) ==
    IF s.IsLeft /\ s.IsRight THEN <<NewInput("L"), NewInput("R")>>
    ELSE IF s.IsLeft THEN <<NewInput("L")>>
    ELSE <<NewInput("R")>>

\* strconv.Atoi on the --in values of the model
Numerals == {"-1", "0", "1", "2", "3", "4", "5", "9"}
AtoiOk(v) == v \in Numerals
Atoi(v) ==
    CASE v = "-1" -> 0 - 1
      [] v = "0" -> 0
      [] v = "1" -> 1
      [] v = "2" -> 2
      [] v = "3" -> 3
      [] v = "4" -> 4
      [] v = "5" -> 5
      [] v = "9" -> 9
      [] OTHER -> 0

\* v starts with '@'
IsNameRef(v) == v \in {"@x", "@y", "@zz"}

\* the Index of the first stage of S (from Go index i on) named v, else 0
RECURSIVE NameIndex(_, _, _)
NameIndex(v, S, i) ==
    IF i >= Len(S) THEN 0
    ELSE IF At(S, i) # Nil /\ At(S, i).Name = v THEN At(S, i).Index
    ELSE NameIndex(v, S, i + 1)

\* the filter id an integer --in value gives
InjectId(v, S) == Atoi(v)

\* where to inject new messages? the filter modes for L and R inputs and
\* the filter id for --in v of the stage at Index index
InFilter(v, index, S) ==
    CASE v \in {"next", ""} ->
           [frev |-> "GE", ffwd |-> "LE", fid |-> index, err |-> NoErr]
      [] v = "here" ->
           [frev |-> "GT", ffwd |-> "LT", fid |-> index, err |-> NoErr]
      [] v = "first" ->
           [frev |-> "NONE", ffwd |-> "NONE", fid |-> 0, err |-> NoErr]
      [] v = "last" ->
           [frev |-> "ALL", ffwd |-> "ALL", fid |-> 0, err |-> NoErr]
      [] OTHER ->
           LET fid == IF AtoiOk(v) THEN InjectId(v, S)
                      ELSE IF IsNameRef(v) THEN NameIndex(v, S, 0)
                      ELSE 0
           IN [frev |-> "GE", ffwd |-> "LE", fid |-> fid,
               err |-> IF fid <= 0 THEN ErrInject ELSE NoErr]

\* the forward mode whatever the input's direction
InputFilter_Fwd(li, f) == f.ffwd
\* the filter mode an input gets: CLI gives L stages in reverse
InputFilter(li, f) == IF li.Dir = "L" THEN f.frev ELSE f.ffwd

\* fix inputs
StampInputs(s, f) ==
    [s EXCEPT !.inputs =
        [i \in 1..Len(s.inputs) |->
            [s.inputs[i] EXCEPT !.Id = s.Index,
                                !.FilterValue = f.fid,
                                !.Reverse = (s.inputs[i].Dir = "L"),
                                !.CallbackFilter = InputFilter(s.inputs[i], f)]]]

\* the wait-groups of the pipeline: writers and readers of L and of R
NoWg == [lwrite |-> 0, lread |-> 0, rwrite |-> 0, rread |-> 0]

\* does stage s write to (read from) the line dir?
Writes(s, dir) ==
    s.Opt.IsProducer /\ ((dir = "L" /\ s.IsLeft) \/ (dir = "R" /\ s.IsRight))
Reads(s, dir) ==
    s.Opt.IsConsumer /\ ((dir = "R" /\ s.IsLeft) \/ (dir = "L" /\ s.IsRight))

\* s.wgAdd(delta): update the wait-groups the stage takes part in
wgAdd(s, w, delta) ==
    [lwrite |-> w.lwrite + (IF Writes(s, "L") THEN delta ELSE 0),
     lread |-> w.lread + (IF Reads(s, "L") THEN delta ELSE 0),
     rwrite |-> w.rwrite + (IF Writes(s, "R") THEN delta ELSE 0),
     rread |-> w.rread + (IF Reads(s, "R") THEN delta ELSE 0)]

\* the events runStart is registered on: the --wait events, else START
StartOn(s) ==
    IF Len(s.Kv.wait) > 0 THEN {s.Kv.wait[i] : i \in 1..Len(s.Kv.wait)}
    ELSE {EVENT_START}

\* update related waitgroups; has trigger-on events?
attachWait(s, w) ==
    [s |-> [s EXCEPT !.startOn = StartOn(s), !.attached = TRUE],
     wg |-> wgAdd(s, w, 1), err |-> NoErr]

\* fix inputs with the filter f of --in, unless --in is rejected
attachInputs(s, f, w) ==
    IF f.err # NoErr THEN [s |-> s, wg |-> w, err |-> f.err]
    ELSE attachWait(StampInputs(s, f), w)

\* if not an internal stage: consumes messages? where to inject?
attachUser(s, S, w) ==
    IF s.Index <= 0 THEN attachWait(s, w)
    ELSE IF s.Opt.IsConsumer /\ ~(s.IsFirst \/ s.IsLast)
    THEN [s |-> s, wg |-> w, err |-> ErrFirstOrLast]
    ELSE attachInputs(s, InFilter(s.Kv.in, s.Index, S), w)

\* call child attach
attachChild(s, S, w) ==
    attachUser([s EXCEPT !.inputs = ChildInputs(s)], S, w)

\* set s.Dir, unless left / right was rejected
attachDir(lr, S, w) ==
    IF lr.err # NoErr THEN [s |-> lr.s, wg |-> w, err |-> lr.err]
    ELSE attachChild(SetDir(lr.s), S, w)

\* StageBase.attach of stage s0 of stage list S with wait-groups w
attach(s0, S, w) == attachDir(LeftRight(FirstLast(s0, S)), S, w)

\* the stage list reversed from position 1 on and the flags swapped, the
\* stages keeping the Index they had
ReverseStages_NoRenumber(S) ==
    [p \in 1..Len(S) |->
        LET s == IF p = 1 THEN S[1] ELSE S[Len(S) + 2 - p] IN
        IF s = Nil THEN Nil
        ELSE [s EXCEPT !.Kv.left = s.Kv.right, !.Kv.right = s.Kv.left]]

\* slices.Reverse(b.Stages[1:]), then every stage renumbered to its new
\* position and its left and right flags swapped
ReverseStages(S) ==
    [p \in 1..Len(S) |->
        LET s == IF p = 1 THEN S[1] ELSE S[Len(S) + 2 - p] IN
        IF s = Nil THEN Nil
        ELSE [s EXCEPT !.Index = p - 1,
                       !.Kv.left = s.Kv.right,
                       !.Kv.right = s.Kv.left]]

\* the loop of Bgpipe.Attach over b.Stages from Go index i on
RECURSIVE AttachLoop(_, _, _, _)
\* the stage at Go index i has run attach with result r
AttachNext(i, S, r, has) ==
    IF r.err # NoErr
    THEN [Stages |-> [S EXCEPT ![i + 1] = r.s], wg |-> r.wg, has |-> has,
          err |-> r.err]
    ELSE AttachLoop(i + 1, [S EXCEPT ![i + 1] = r.s], r.wg,
             [stdin |-> has.stdin \/ r.s.Opt.IsStdin,
              stdout |-> has.stdout \/ r.s.Opt.IsStdout])
AttachLoop(i, S, w, has) ==
    IF i >= Len(S) THEN [Stages |-> S, wg |-> w, has |-> has, err |-> NoErr]
    ELSE IF At(S, i) = Nil THEN AttachLoop(i + 1, S, w, has)
    ELSE AttachNext(i, S, attach(At(S, i), S, w), has)

\* the automatic stdout and stdin stages as Attach configures them
AutoStdout(id) ==
    [NewStage("stdout", id) EXCEPT !.Kv.left = TRUE, !.Kv.right = TRUE]
AutoStdin(id) ==
    [NewStage("stdin", id) EXCEPT !.Kv.left = TRUE, !.Kv.right = TRUE,
                                  !.Kv.in = "first",
                                  !.Kv.wait = <<EVENT_ESTABLISHED>>]

\* the result of Attach after the automatic stage numbered n ran attach
\* with result r, au being the automatic stages attached before it
AutoAttached(S, r, n, au) ==
    [Stages |-> S, wg |-> r.wg,
     Autos |-> IF r.err = NoErr THEN au \o <<r.s>> ELSE au,
     nid |-> n, err |-> r.err]

\* add automatic stdin?
AttachAutoStdin(S, k, has, n, au, w) ==
    IF k.stdin /\ ~has.stdin
    THEN AutoAttached(S, attach(AutoStdin(n + 1), S, w), n + 1, au)
    ELSE [Stages |-> S, wg |-> w, Autos |-> au, nid |-> n, err |-> NoErr]

\* the automatic stdout numbered n has run attach with result o
AfterAutoStdout(S, k, has, n, o) ==
    IF o.err # NoErr THEN AutoAttached(S, o, n, <<>>)
    ELSE AttachAutoStdin(S, k, has, n, <<o.s>>, o.wg)

\* add automatic stdout?
AttachAutoStdout(S, k, has, n, w) ==
    IF ~k.silent /\ ~has.stdout
    THEN AfterAutoStdout(S, k, has, n + 1, attach(AutoStdout(n + 1), S, w))
    ELSE AttachAutoStdin(S, k, has, n, <<>>, w)

\* the stage loop has returned a
AttachAutos(a, k, n) ==
    IF a.err # NoErr
    THEN [Stages |-> a.Stages, wg |-> a.wg, Autos |-> <<>>, nid |-> n,
          err |-> a.err]
    ELSE AttachAutoStdout(a.Stages, k, a.has, n, a.wg)

\* Bgpipe.Attach on stage list S0 with global options k
AttachAll(S0, k, n, w0) ==
    IF StageCount(S0) < 1
    THEN [Stages |-> S0, wg |-> w0, Autos |-> <<>>, nid |-> n,
          err |-> ErrNoStage]
    ELSE AttachAutos(AttachLoop(0, IF k.reverse THEN ReverseStages(S0) ELSE S0,
                                w0, [stdin |-> FALSE, stdout |-> FALSE]),
                     k, n)

\* Bgpipe.Attach
Attach ==
    LET r == AttachAll(Stages, K, nid, wg) IN
    /\ pc = "attach"
    /\ Stages' = r.Stages
    /\ wg' = r.wg
    /\ Autos' = r.Autos
    /\ nid' = r.nid
    /\ ret' = [op |-> "Attach", err |-> r.err, before |-> Stages]
    /\ pc' = "attached"
    /\ UNCHANGED <<K, argv, auto_stdin, auto_stdout>>
    /\ UNCHANGED runVars
    /\ UNCHANGED ioVars

\* ------------------------------------------- the pipelines Attach is run on
\* the stage options (Options of the stage implementation) drawn
OptKinds ==
    {[NoOpt EXCEPT !.IsProducer = TRUE, !.IsConsumer = TRUE],
     [NoOpt EXCEPT !.IsProducer = TRUE],
     [NoOpt EXCEPT !.IsConsumer = TRUE],
     [NoOpt EXCEPT !.Bidir = TRUE],
     [NoOpt EXCEPT !.Bidir = TRUE, !.IsProducer = TRUE]}

InVals ==
    {"next", "here", "first", "last", "-1", "0", "1", "2", "3", "9",
     "@x", "@y", "@zz", "bogus"}

\* the name of the stage configured in slot p
SlotName(p) == IF p = 2 THEN "@y" ELSE "@x"

\* the stage configurations one slot is varied over: every direction
\* flag, option kind and --wait setting with the default --in, and every
\* --in value in every direction
FocusCfgs ==
    {[opt |-> o, kv |-> [NoKv EXCEPT !.left = l, !.right = r, !.wait = w]] :
        o \in OptKinds, l \in BOOLEAN, r \in BOOLEAN,
        w \in {<<>>, <<EVENT_ESTABLISHED>>}}
    \cup
    {[opt |-> o, kv |-> [NoKv EXCEPT !.left = l, !.right = r, !.in = v]] :
        o \in {[NoOpt EXCEPT !.Bidir = TRUE, !.IsProducer = TRUE]},
        l \in BOOLEAN, r \in BOOLEAN, v \in InVals}

\* the configurations of the other slots
PlainCfgs ==
    {[opt |-> o, kv |-> NoKv] :
        o \in {[NoOpt EXCEPT !.IsProducer = TRUE, !.IsConsumer = TRUE],
               [NoOpt EXCEPT !.Bidir = TRUE, !.IsStdout = TRUE]}}

\* the stage object of slot p as Configure leaves it
MkStage(c, p) ==
    [NewStage("exec", p) EXCEPT !.Index = p, !.Name = SlotName(p),
                                !.Opt = c.opt, !.Kv = c.kv]

\* the stage list with n slots whose slot f holds the configuration fc
\* of FocusCfgs and whose other slots are nil or hold d's configuration;
\* AddStage grows the list only to store a stage, so the last slot of a
\* list is never nil
StageList(n, f, fc, d) ==
    [p \in 1..(n + 1) |->
         IF p = 1 THEN Nil
         ELSE IF p - 1 = f THEN MkStage(fc, f)
         ELSE IF d[p - 1] = Nil THEN Nil
         ELSE MkStage(d[p - 1], p - 1)]

GlobalKs ==
    {[reverse |-> rv, silent |-> a[1], stdin |-> a[2]] :
        rv \in BOOLEAN,
        a \in {<<FALSE, FALSE>>, <<TRUE, FALSE>>, <<FALSE, TRUE>>}}

InitAttach ==
    /\ InitRest
    /\ \/ Stages = <<>>
       \/ \E n \in 1..MaxStages, f \in 1..MaxStages :
             /\ f <= n
             /\ \E fc \in FocusCfgs,
                   d \in [(1..n) \ {f} -> PlainCfgs \cup {Nil}] :
                   /\ IF f = n THEN TRUE ELSE d[n] # Nil
                   /\ Stages = StageList(n, f, fc, d)
    /\ nid = MaxStages
    /\ K \in GlobalKs
    /\ argv = <<>>
    /\ pc = "attach"
    /\ ret = NoRet

NextAttach == Attach

SpecAttach == InitAttach /\ [][NextAttach]_vars

\* the stages of the list S, and with them the automatic ones
StagesOf(S) == {S[p] : p \in 1..Len(S)} \ {Nil}
AllStages == StagesOf(Stages) \cup StagesOf(Autos)

Skip(mode, id, val) ==
    CASE mode = "NONE" -> FALSE
      [] mode = "GT" -> id > val
      [] mode = "LT" -> id < val
      [] mode = "GE" -> id >= val
      [] mode = "LE" -> id <= val
      [] mode = "ALL" -> TRUE

\* a message written to input li reaches the callbacks of stage j
Sees(li, j) == ~Skip(li.CallbackFilter, j, li.FilterValue)

InputsOf(s) == {s.inputs[i] : i \in 1..Len(s.inputs)}
Indexes == 1..StageCount(Stages)

Target(v, S) ==
    IF AtoiOk(v)
    THEN IF Atoi(v) >= 1 /\ Atoi(v) < Len(S) /\ At(S, Atoi(v)) # Nil
         THEN Atoi(v) ELSE 0
    ELSE IF IsNameRef(v) THEN NameIndex(v, S, 0)
    ELSE 0

\* C10: Attach fails with ErrInject when a stage's --in value names no
\* existing stage (an unmatched @name, an unknown word, an integer that is
\* no stage's index); an Attach that succeeds has given every stage whose
\* --in names a stage that stage's index as filter id.
C10_InjectTarget ==
    pc = "attached" =>
        \A s \in StagesOf(Stages) :
            (s.attached /\ s.Kv.in \notin {"", "next", "here", "first", "last"})
            => /\ Target(s.Kv.in, Stages) > 0
               /\ \A li \in InputsOf(s) :
                     li.FilterValue = Target(s.Kv.in, Stages)

\* ------------------------------------------------------------------ Run
ErrConfig == "configuration error"
Canceled == "context.Canceled"
Causes == {"nil", "e1", "e2"}

Sides == {"linput", "rinput", "loutput", "routput"}

\* the wait-group a watcher waits on before it closes the side
SideWg(w, side) ==
    CASE side = "linput" -> w.lwrite
      [] side = "rinput" -> w.rwrite
      [] side = "loutput" -> w.lread
      [] side = "routput" -> w.rread

\* does stage s take part in the wait-group of the side?
UsesSide(s, side) ==
    CASE side = "linput" -> Writes(s, "L")
      [] side = "rinput" -> Writes(s, "R")
      [] side = "loutput" -> Reads(s, "L")
      [] side = "routput" -> Reads(s, "R")

\* s.WgAdd(delta): the stage's presence on its wait-groups
WgAdd(s, w, delta) == wgAdd(s, w, delta)

NoRt == [enabled |-> FALSE, st |-> "idle", launches |-> 0,
         startEn |-> FALSE, startRun |-> FALSE]

\* go s.run(): the stage's Run is launched
Launch(r, id) ==
    [r EXCEPT ![id].st = "running", ![id].launches = @ + 1]

\* a pre-handler that runs the stage on every event after the start
runStart_Again(r, id, pipeStarted) ==
    IF pipeStarted THEN Launch([r EXCEPT ![id].enabled = TRUE], id)
    ELSE [r EXCEPT ![id].enabled = TRUE]
\* s.runStart(ev), the pre-handler of the stage's start events: the stage
\* is enabled, and run at once when the pipeline has already started
runStart(r, id, pipeStarted) ==
    IF r[id].enabled \/ r[id].st # "idle" THEN r
    ELSE IF pipeStarted THEN Launch([r EXCEPT ![id].enabled = TRUE], id)
    ELSE [r EXCEPT ![id].enabled = TRUE]

\* the pre-handlers of event ev, over the stage objects 1..n
RECURSIVE PreHandlers(_, _, _, _)
PreHandlers(r, ev, n, pipeStarted) ==
    IF n = 0 THEN r
    ELSE LET r1 == PreHandlers(r, ev, n - 1, pipeStarted)
             ss == {s \in AllStages : s.id = n /\ s.attached /\ ev \in s.startOn}
         IN IF ss = {} THEN r1 ELSE runStart(r1, n, pipeStarted)

\* run every stage, enabled or not
ShouldRun_Always(r, s) == TRUE
\* run now iff already enabled
ShouldRun(r, s) == r[s.id].enabled

\* the loop of b.Start over b.Stages from Go index i on: the wait-groups
\* are kicked for every stage, the enabled ones are run
RECURSIVE StartLoop(_, _, _)
StartLoop(i, r, w) ==
    IF i >= Len(Stages) THEN [rt |-> r, wg |-> w]
    ELSE IF At(Stages, i) = Nil THEN StartLoop(i + 1, r, w)
    ELSE LET s == At(Stages, i)
             go == ShouldRun(r, s)
             r1 == [r EXCEPT ![s.id].startEn = r[s.id].enabled,
                             ![s.id].startRun = go]
         IN StartLoop(i + 1, IF go THEN Launch(r1, s.id) ELSE r1,
                      WgAdd(s, w, 1))

\* start auto stdout / auto stdin?
StartAuto(a, x) ==
    IF a = Nil THEN x
    ELSE [rt |-> Launch(x.rt, a.id), wg |-> WgAdd(a, x.wg, 1)]

\* a cancel function whose last call sets the cause
CancelCtx_Last(c, cause) ==
    [done |-> TRUE, cause |-> IF cause = "nil" THEN Canceled ELSE cause]
\* context.CancelCauseFunc: the first call sets the cause, which is
\* context.Canceled for a nil cause; later calls change nothing
CancelCtx(c, cause) ==
    IF c.done THEN c
    ELSE [done |-> TRUE, cause |-> IF cause = "nil" THEN Canceled ELSE cause]

\* the record of the Cancel calls, one more call made
Record(h, cause) ==
    [n |-> h.n + 1,
     first |-> IF h.n = 0 THEN cause ELSE h.first,
     firstNonNil |-> IF h.firstNonNil = "none" /\ cause # "nil" THEN cause
                     ELSE h.firstNonNil]

\* the stage lists and options Configure leaves behind
RunCfgs ==
    {[opt |-> [NoOpt EXCEPT !.IsProducer = TRUE, !.IsConsumer = TRUE],
      kv |-> NoKv],
     [opt |-> [NoOpt EXCEPT !.IsProducer = TRUE, !.IsConsumer = TRUE],
      kv |-> [NoKv EXCEPT !.wait = <<EVENT_ESTABLISHED>>]],
     [opt |-> [NoOpt EXCEPT !.IsProducer = TRUE, !.IsConsumer = TRUE],
      kv |-> [NoKv EXCEPT !.wait = <<EVENT_ESTABLISHED, EVENT_EOR>>]],
     [opt |-> [NoOpt EXCEPT !.IsProducer = TRUE, !.IsConsumer = TRUE],
      kv |-> [NoKv EXCEPT !.left = TRUE, !.right = TRUE]],
     [opt |-> [NoOpt EXCEPT !.Bidir = TRUE], kv |-> NoKv]}

RunStageLists ==
    UNION {{[p \in 1..(n + 1) |-> IF p = 1 THEN Nil ELSE MkStage(d[p - 1], p - 1)] :
               d \in [1..n -> RunCfgs]} : n \in 1..MaxRunStages}

RunKs ==
    {[reverse |-> FALSE, silent |-> a[1], stdin |-> a[2]] :
        a \in {<<TRUE, FALSE>>, <<FALSE, FALSE>>, <<TRUE, TRUE>>}}

\* Run: b.Configure(), which fails or leaves a stage list
Configure ==
    /\ pc = "configure"
    /\ calls' = Append(calls, "Configure")
    /\ \/ /\ pc' = "done"
          /\ ret' = [op |-> "Run", err |-> ErrConfig]
          /\ UNCHANGED <<Stages, nid, K>>
       \/ /\ Stages' \in RunStageLists
          /\ K' \in RunKs
          /\ nid' = Len(Stages') - 1
          /\ pc' = "attach"
          /\ UNCHANGED ret
    /\ UNCHANGED <<argv, rt, ctx, hist, closed, started, events>>
    /\ UNCHANGED attVars
    /\ UNCHANGED ioVars

\* go on to start the pipe whatever Attach returned
AfterAttach_Start(err) == "start"
\* Run: the step after b.Attach() returned err
AfterAttach(err) == IF err # NoErr THEN "done" ELSE "start"

\* Run: b.Attach()
RunAttach ==
    LET r == AttachAll(Stages, K, nid, wg) IN
    /\ pc = "attach"
    /\ calls' = Append(calls, "Attach")
    /\ Stages' = r.Stages
    /\ wg' = r.wg
    /\ Autos' = r.Autos
    /\ nid' = r.nid
    /\ rt' = [i \in 1..r.nid |-> NoRt]
    /\ pc' = AfterAttach(r.err)
    /\ ret' = IF r.err # NoErr THEN [op |-> "Run", err |-> r.err] ELSE ret
    /\ UNCHANGED <<K, argv, auto_stdin, auto_stdout, ctx, hist, closed,
                   started, events>>
    /\ UNCHANGED ioVars

\* Run: b.Pipe.Start(), which dispatches the START event: the pre-handlers
\* registered on START first, then b.Start, which runs the automatic
\* stages, kicks the wait-groups, runs the enabled stages and spawns the
\* four watchers
PipeStart ==
    LET r0 == PreHandlers(rt, EVENT_START, nid, FALSE)
        a == StartAuto(auto_stdin,
                 StartAuto(auto_stdout, [rt |-> r0, wg |-> wg]))
        x == StartLoop(0, a.rt, a.wg)
    IN /\ pc = "start"
       /\ calls' = Append(calls, "Start")
       /\ rt' = x.rt
       /\ wg' = x.wg
       /\ started' = TRUE
       /\ pc' = "wait"
       /\ UNCHANGED <<Stages, nid, K, argv, ret, Autos, auto_stdin,
                      auto_stdout, ctx, hist, closed, events>>
       /\ UNCHANGED ioVars

\* the events stages wait for
WaitEvents == {EVENT_ESTABLISHED, EVENT_EOR}

\* the pipe dispatches a wait event to its pre-handlers
WaitEvent ==
    /\ started
    /\ pc # "done"
    /\ events < MaxEvents
    /\ events' = events + 1
    /\ \E ev \in WaitEvents : rt' = PreHandlers(rt, ev, nid, TRUE)
    /\ UNCHANGED <<wg, Autos, auto_stdin, auto_stdout, ctx, hist, closed,
                   started, calls>>
    /\ UNCHANGED cfgVars
    /\ UNCHANGED ioVars

\* what a stage's exit adds to its wait-groups
ExitDelta == 0 - 1

\* a running stage's Run returns err: the stage is disabled and leaves
\* its wait-groups; a failed consumer cancels the pipeline
StageReturn(id, err) ==
    /\ pc # "done"
    /\ id \in DOMAIN rt
    /\ rt[id].st = "running"
    /\ \E s \in AllStages :
          /\ s.id = id
          /\ wg' = wgAdd(s, wg, ExitDelta)
          /\ IF err # "nil" /\ s.Opt.IsConsumer
             THEN ctx' = CancelCtx(ctx, err) /\ hist' = Record(hist, err)
             ELSE UNCHANGED <<ctx, hist>>
    /\ rt' = [rt EXCEPT ![id].st = "exited", ![id].enabled = FALSE]
    /\ UNCHANGED <<Autos, auto_stdin, auto_stdout, closed, started, events,
                   calls>>
    /\ UNCHANGED cfgVars
    /\ UNCHANGED ioVars

\* a running stage calls b.Cancel(cause)
CallCancel(id, cause) ==
    /\ pc # "done"
    /\ id \in DOMAIN rt
    /\ rt[id].st = "running"
    /\ hist.n < MaxCancels
    /\ ctx' = CancelCtx(ctx, cause)
    /\ hist' = Record(hist, cause)
    /\ UNCHANGED <<rt, closed, started, events, calls>>
    /\ UNCHANGED attVars
    /\ UNCHANGED cfgVars
    /\ UNCHANGED ioVars

\* wg.Wait() returns: the wait-group is at zero
WgIdle(w, side) == SideWg(w, side) = 0

\* the watcher of a side: once its wait-group is idle it closes the side
Watcher(side) ==
    /\ started
    /\ pc # "done"
    /\ closed[side] = 0
    /\ WgIdle(wg, side)
    /\ closed' = [closed EXCEPT ![side] = @ + 1]
    /\ UNCHANGED <<rt, ctx, hist, started, events, calls>>
    /\ UNCHANGED attVars
    /\ UNCHANGED cfgVars
    /\ UNCHANGED ioVars

\* Run: b.Pipe.Wait() returns, all sides closed or the context done, and
\* Run returns the cause of the context
PipeWait ==
    /\ pc = "wait"
    /\ ctx.done \/ \A side \in Sides : closed[side] > 0
    /\ calls' = Append(calls, "Wait")
    /\ pc' = "done"
    /\ ret' = [op |-> "Run", err |-> IF ctx.done THEN ctx.cause ELSE "nil"]
    /\ UNCHANGED <<Stages, nid, K, argv, rt, ctx, hist, closed, started,
                   events>>
    /\ UNCHANGED attVars
    /\ UNCHANGED ioVars

InitRun ==
    /\ InitRest
    /\ Stages = <<>>
    /\ nid = 0
    /\ K = NoK
    /\ argv = <<>>
    /\ pc = "configure"
    /\ ret = NoRet

NextRun ==
    \/ Configure
    \/ RunAttach
    \/ PipeStart
    \/ WaitEvent
    \/ \E id \in 1..(MaxRunStages + 2), err \in {"nil", "e1"} : StageReturn(id, err)
    \/ \E id \in 1..(MaxRunStages + 2), cause \in Causes : CallCancel(id, cause)
    \/ \E side \in Sides : Watcher(side)
    \/ PipeWait

SpecRun == InitRun /\ [][NextRun]_vars

\* ------------------------------------------------ properties of Run / Start
\* every stage object's Run has been launched and has returned
Returned ==
    /\ started
    /\ rt # <<>>
    /\ \A id \in DOMAIN rt : rt[id].st = "exited"

\* no watcher can take a step
WatchersDone ==
    \A side \in Sides : ~(closed[side] = 0 /\ WgIdle(wg, side))

\* C1: each of the four stream sides is closed exactly once by the
\* watchers spawned in Start, and only after its wait-group has reached
\* zero, never while a stage writing to or reading from it is running:
\* once every stage has returned and the watchers have run, every side
\* has been closed once, and a closed side has an idle wait-group and no
\* running participant.
C1_ClosedExactlyOnce ==
    /\ \A side \in Sides :
          /\ closed[side] <= 1
          /\ closed[side] = 1 =>
                /\ SideWg(wg, side) = 0
                /\ \A s \in AllStages :
                      (s.id \in DOMAIN rt /\ rt[s.id].st = "running")
                          => ~UsesSide(s, side)
    /\ (pc = "wait" /\ ~ctx.done /\ Returned /\ WatchersDone)
          => \A side \in Sides : closed[side] = 1

\* C2: once every stage's Run has returned, the increments made for a
\* stage at attach time and at Start are balanced by the decrements made
\* when it exits: all four wait-group counters are back at zero (so that
\* the watchers close every side and Wait returns).
C2_Balanced == Returned => wg = NoWg

\* C3: at START, Start launches a stage's Run if and only if the stage's
\* enabled flag is already set, and a stage with a non-empty --wait list
\* (the automatic stdin stage included) is not run before one of its wait
\* events has fired.
C3_StartGate ==
    /\ started =>
          \A id \in DOMAIN rt :
              /\ rt[id].startRun = rt[id].startEn
              /\ events = 0 => (rt[id].launches > 0 <=> rt[id].startEn)
    /\ \A s \in AllStages :
          (s.id \in DOMAIN rt /\ s.attached /\ Len(s.Kv.wait) > 0
              /\ rt[s.id].launches > 0) => events > 0

\* Start ran one stage at once and left a --wait stage idle, which is
\* running now that its wait event has fired
C3_Witness ==
    /\ started
    /\ events > 0
    /\ \E s1, s2 \in StagesOf(Stages) :
          /\ Len(s1.Kv.wait) > 0
          /\ ~rt[s1.id].startRun
          /\ rt[s1.id].st = "running"
          /\ Len(s2.Kv.wait) = 0
          /\ rt[s2.id].startRun

\* has Run returned from Pipe.Wait?
Waited == pc = "done" /\ ret.op = "Run" /\ Len(calls) = 4

RunOrder == <<"Configure", "Attach", "Start", "Wait">>

\* C5: Run performs Configure, Attach, pipe Start, pipe Wait strictly in
\* that order; if Configure or Attach returns an error, Run returns that
\* error without starting the pipe: no stage's Run is launched and no
\* stream side is closed.
C5_RunOrder ==
    /\ \E n \in 0..Len(RunOrder) : calls = SubSeq(RunOrder, 1, n)
    /\ started => Len(calls) >= 3
    /\ (ret.op = "Run" /\ Len(calls) < 4) =>
          /\ pc = "done"
          /\ Len(calls) < 3
          /\ ret.err \notin {"nil", NoErr}
          /\ ~started
          /\ \A id \in DOMAIN rt : rt[id].launches = 0
          /\ \A side \in Sides : closed[side] = 0

\* Run has returned the error of Attach
C5_Witness ==
    /\ pc = "done"
    /\ calls = <<"Configure", "Attach">>
    /\ ret.op = "Run"
    /\ ret.err = ErrLR

\* ---------------------------------------------- consumers, reverse, autos
\* the positions of the user stages of stage list S, and the lowest and
\* the highest of a set of positions
UserIdx(S) == {i \in 1..(Len(S) - 1) : At(S, i) # Nil}
Lowest(U) == CHOOSE i \in U : \A j \in U : i <= j
Highest(U) == CHOOSE i \in U : \A j \in U : i >= j

\* the consumers of S that are neither the first nor the last stage of
\* the chain
MidConsumers(S) ==
    {i \in UserIdx(S) : /\ At(S, i).Opt.IsConsumer
                        /\ i # Lowest(UserIdx(S))
                        /\ i # Highest(UserIdx(S))}

\* the stage whose attach made Attach return: the first one not attached
FailedIdx(S) == Lowest({i \in UserIdx(S) : ~At(S, i).attached})

\* C11: Attach fails if some user stage with the IsConsumer role is
\* neither the first nor the last stage of the chain, and it returns
\* ErrFirstOrLast only for such a stage, never for a consumer that is the
\* first or the last stage of the chain (the chain as Attach processes
\* it, that is after --reverse).
C11_ConsumerEnds ==
    pc = "attached" =>
        /\ MidConsumers(Stages) # {} => ret.err # NoErr
        /\ ret.err = ErrFirstOrLast => FailedIdx(Stages) \in MidConsumers(Stages)

\* C12: the --reverse step applied twice to a stage list (sparse lists
\* included) restores the stage order, every stage's Index and its left
\* and right flags, and after one application every stage's Index is its
\* position; the list Attach has reversed holds at position p the stage
\* that was at the mirrored position, renumbered and with its flags
\* swapped.
C12_ReverseInvolution ==
    /\ (pc = "attach" /\ StageCount(Stages) >= 1) =>
          /\ ReverseStages(ReverseStages(Stages)) = Stages
          /\ \A p \in 1..Len(Stages) :
                ReverseStages(Stages)[p] # Nil =>
                    ReverseStages(Stages)[p].Index = p - 1
    /\ (pc = "attached" /\ K.reverse /\ ret.err # ErrNoStage) =>
          /\ Len(Stages) = Len(ret.before)
          /\ \A p \in 2..Len(Stages) :
                LET was == ret.before[Len(Stages) + 2 - p] IN
                IF was = Nil THEN Stages[p] = Nil
                ELSE /\ Stages[p].id = was.id
                     /\ Stages[p].Index = p - 1
                     /\ Stages[p].Kv.left = was.Kv.right
                     /\ Stages[p].Kv.right = was.Kv.left

\* Attach has reversed a sparse list one of whose stages was given --left
C12_Witness ==
    /\ pc = "attached"
    /\ K.reverse
    /\ Len(Stages) = 4
    /\ At(Stages, 3) = Nil
    /\ \E i \in UserIdx(Stages) :
          /\ At(Stages, i).Kv.right /\ ~At(Stages, i).Kv.left
          /\ ret.before[Len(Stages) + 1 - i].Kv.left

\* the automatic stages attached under the command cmd
AutosOf(cmd) == {a \in StagesOf(Autos) : a.Cmd = cmd}
\* some stage of the list exposes stdout / stdin
HasStdout == \E s \in StagesOf(Stages) : s.Opt.IsStdout
HasStdin == \E s \in StagesOf(Stages) : s.Opt.IsStdin

\* C13: once Attach has succeeded there is an automatic stdout stage iff
\* no stage exposes stdout and --silent is unset, and an automatic stdin
\* stage iff --stdin is set and no stage exposes stdin; once the pipe has
\* started, the run of every automatic stage has been launched.
C13_AutoStages ==
    /\ pc \in {"start", "wait"} =>
          /\ (AutosOf("stdout") # {}) = (~K.silent /\ ~HasStdout)
          /\ (AutosOf("stdin") # {}) = (K.stdin /\ ~HasStdin)
    /\ started =>
          \A a \in StagesOf(Autos) : rt[a.id].launches >= 1

\* ------------------------------------------------------------ Extio: Attach
\* the message types of --type and of the messages read
UPDATE == "UPDATE"
KEEPALIVE == "KEEPALIVE"
INVALID == "INVALID"
ErrLength == "ErrLength"
ErrFormat == "ErrFormat"
ErrParse == "parse error"
ErrReadWrite == "--read and --write: must not use both at the same time"
ErrRawMrt == "--raw and --mrt: must not use both at the same time"

\* check options: --read and --write
CheckReadWrite(o) ==
    IF o.read /\ o.write THEN ErrReadWrite ELSE NoErr
\* --copy left as it was given
ForceCopy_Never(o) == o
\* read/write-only doesn't make sense without --copy
ForceCopy(o) ==
    IF o.read \/ o.write THEN [o EXCEPT !.copy = TRUE] ELSE o
\* check options: --raw and --mrt
CheckRawMrt(o) ==
    IF o.raw /\ o.mrt THEN ErrRawMrt ELSE NoErr

\* the inputs, the default input of a bidirectional stage always R
AttachInputs_DefaultR(s) ==
    IF s.IsBidir THEN [L |-> "inL", R |-> "inR", D |-> "inR"]
    ELSE IF s.IsLeft THEN [L |-> "inL", R |-> "inL", D |-> "inL"]
    ELSE [L |-> "inR", R |-> "inR", D |-> "inR"]
\* the inputs of a stage that is not write-only: L, R and the default
AttachInputs(s) ==
    IF s.IsBidir
    THEN [L |-> "inL", R |-> "inR", D |-> IF s.IsLast THEN "inL" ELSE "inR"]
    ELSE IF s.IsLeft THEN [L |-> "inL", R |-> "inL", D |-> "inL"]
    ELSE [L |-> "inR", R |-> "inR", D |-> "inR"]
NoInputs == [L |-> "nil", R |-> "nil", D |-> "nil"]

\* Extio.Attach
ExtioAttach ==
    LET o == sb.k
        e1 == CheckReadWrite(o)
        o1 == ForceCopy(o)
        e2 == IF e1 # NoErr THEN e1 ELSE CheckRawMrt(o1)
        ins == IF e2 = NoErr /\ ~o1.write THEN AttachInputs(sb) ELSE NoInputs
    IN /\ pc = "new"
       /\ opt' = IF e1 # NoErr THEN o ELSE o1
       /\ InputL' = ins.L
       /\ InputR' = ins.R
       /\ InputD' = ins.D
       /\ Callback' = [set |-> e2 = NoErr /\ ~o1.read, dropped |-> FALSE]
       /\ pc' = IF e2 = NoErr THEN "attached" ELSE "failed"
       /\ ret' = [op |-> "Attach", err |-> e2]
       /\ UNCHANGED <<sb, In, buf, obs, Output, th, rs, tcp>>
       /\ UNCHANGED <<Stages, nid, K, argv>>
       /\ UNCHANGED attVars
       /\ UNCHANGED runVars

\* --------------------------------------------------------- Extio: ReadSingle
\* Bytes are modelled as one-character strings.  The parsers of bgpfix
\* (msg.FromBytes, mrt.Reader.FromBytes, msg.FromJSON, Update.FromJSON) are
\* outside the repository; they are stood for by parsers of a miniature
\* format in which a message is "[" ... "]" (an UPDATE in JSON may also be
\* "{" ... "}"), an "L" or "R" inside gives the direction, a "U" inside
\* makes it an UPDATE, and a "#" inside an MRT record makes it a BGP4MP
\* record that carries no message.
NL == "\n"
ErrSub == "mrt.ErrSub"
DIR_L == "L"
DIR_R == "R"
DIR_0 == "0"

Has(b, c) == \E i \in 1..Len(b) : b[i] = c
IsSpace(c) == c \in {" ", NL}
\* bytes.TrimSpace
RECURSIVE TrimLeft(_)
TrimLeft(b) ==
    IF Len(b) > 0 /\ IsSpace(b[1]) THEN TrimLeft(Tail(b)) ELSE b
RECURSIVE TrimRight(_)
TrimRight(b) ==
    IF Len(b) > 0 /\ IsSpace(b[Len(b)])
    THEN TrimRight(SubSeq(b, 1, Len(b) - 1)) ELSE b
TrimSpace(b) == TrimRight(TrimLeft(b))

\* P.GetMsg(): a fresh message
GetMsg == [Dir |-> DIR_0, Type |-> INVALID]
\* the direction and the type written in the bytes b
DirIn(b) == IF Has(b, "L") THEN DIR_L ELSE IF Has(b, "R") THEN DIR_R ELSE DIR_0
TypeIn(b) == IF Has(b, "U") THEN UPDATE ELSE KEEPALIVE
\* the length of the first frame in b, 0 if b does not start with one
FrameLen(b) ==
    IF Len(b) > 0 /\ b[1] = "[" /\ Has(b, "]")
    THEN CHOOSE n \in 1..Len(b) : b[n] = "]" /\ \A i \in 1..(n - 1) : b[i] # "]"
    ELSE 0
\* m.FromBytes(buf): the bytes read and the error
FromBytes(b) ==
    IF FrameLen(b) = 0 THEN [n |-> 0, err |-> ErrParse, m |-> GetMsg]
    ELSE [n |-> FrameLen(b), err |-> NoErr,
          m |-> [Dir |-> DIR_0, Type |-> TypeIn(SubSeq(b, 1, FrameLen(b)))]]
\* eio.mrt.FromBytes(buf, m, nil)
MrtFromBytes(b) ==
    IF FrameLen(b) = 0 THEN [n |-> 0, err |-> ErrParse, m |-> GetMsg]
    ELSE IF Has(SubSeq(b, 1, FrameLen(b)), "#")
    THEN [n |-> FrameLen(b), err |-> ErrSub, m |-> GetMsg]
    ELSE [n |-> FrameLen(b), err |-> NoErr,
          m |-> [Dir |-> DirIn(SubSeq(b, 1, FrameLen(b))),
                 Type |-> TypeIn(SubSeq(b, 1, FrameLen(b)))]]
\* m.FromJSON(buf) on a buffer that starts with "["
FromJSON(b) ==
    IF b[Len(b)] # "]" THEN [err |-> ErrParse, m |-> GetMsg]
    ELSE [err |-> NoErr,
          m |-> [Dir |-> DirIn(b),
                 Type |-> IF Has(b, "U") THEN UPDATE ELSE INVALID]]
\* m.Update.FromJSON(buf) on a buffer that starts with "{", after
\* m.Use(msg.UPDATE)
UpdateFromJSON(b) ==
    [err |-> IF b[Len(b)] # "}" THEN ErrParse ELSE NoErr,
     m |-> [Dir |-> DIR_0, Type |-> UPDATE]]

\* what ReadSingle returns: the error, the input written to ("nil" for
\* none), the message, the number of calls of cb
Returns(err) == [err |-> err, to |-> "nil", m |-> GetMsg, cb |-> 0]

\* raw message: parse error, or dangling bytes after msg?
ParseRaw(b, r) ==
    [skip |-> FALSE,
     err |-> IF r.err # NoErr THEN r.err
             ELSE IF r.n # Len(b) THEN ErrLength ELSE NoErr,
     m |-> r.m]
\* MRT message: silent skip, parse error, or dangling bytes after msg?
ParseMrt(b, r) ==
    [skip |-> r.err = ErrSub,
     err |-> IF r.err # NoErr THEN r.err
             ELSE IF r.n # Len(b) THEN ErrLength ELSE NoErr,
     m |-> r.m]
\* for convenience: INVALID becomes KEEPALIVE
UseKeepalive(r) ==
    [skip |-> FALSE, err |-> r.err,
     m |-> IF r.m.Type = INVALID THEN [r.m EXCEPT !.Type = KEEPALIVE] ELSE r.m]
\* parse text in the trimmed buffer b
ParseText(b) ==
    IF Len(b) = 0 \/ b[1] = "#" THEN [skip |-> TRUE, err |-> NoErr, m |-> GetMsg]
    ELSE IF b[1] = "[" THEN UseKeepalive(FromJSON(b))
    ELSE IF b[1] = "{"
    THEN [skip |-> FALSE, err |-> UpdateFromJSON(b).err, m |-> UpdateFromJSON(b).m]
    ELSE [skip |-> FALSE, err |-> ErrFormat, m |-> GetMsg]
\* parse
Parse(o, b) ==
    IF o.raw THEN ParseRaw(b, FromBytes(b))
    ELSE IF o.mrt THEN ParseMrt(b, MrtFromBytes(b))
    ELSE ParseText(TrimSpace(b))

\* the callbacks a caller may pass: none, one that takes every message,
\* one that takes none
Cbs == {"nil", "accept", "reject"}
\* eio.checkMsg: filter message types?
checkMsg(o, m) == ~(o.type # {} /\ m.Type \notin o.type)
\* check: use callback?
Check(o, m, cb) ==
    IF cb = "nil" THEN [ok |-> checkMsg(o, m), cb |-> 0]
    ELSE IF ~checkMsg(o, m) THEN [ok |-> FALSE, cb |-> 0]
    ELSE [ok |-> cb = "accept", cb |-> 1]

\* sail: the input of the message's direction
Sail(ins, m) ==
    IF m.Dir = DIR_L THEN ins.L ELSE IF m.Dir = DIR_R THEN ins.R ELSE ins.D
\* pre-process: the message m has been checked with result c
Checked(ins, m, c) ==
    IF ~c.ok THEN [err |-> NoErr, to |-> "nil", m |-> m, cb |-> c.cb]
    ELSE [err |-> NoErr, to |-> Sail(ins, m), m |-> m, cb |-> c.cb]
\* every parse error returned, with --pardon too
Parsed_Surface(o, ins, p, cb) ==
    IF p.skip THEN Returns(NoErr)
    ELSE IF p.err # NoErr THEN Returns(p.err)
    ELSE Checked(ins, p.m, Check(o, p.m, cb))
\* parse error?
Parsed(o, ins, p, cb) ==
    IF p.skip THEN Returns(NoErr)
    ELSE IF p.err # NoErr THEN Returns(IF o.pardon THEN NoErr ELSE p.err)
    ELSE Checked(ins, p.m, Check(o, p.m, cb))
\* Extio.ReadSingle(buf, cb) with the options o and the inputs ins
ReadSingleOf(o, ins, b, cb) ==
    IF o.write THEN Returns(NoErr) ELSE Parsed(o, ins, Parse(o, b), cb)

\* Input.WriteMsg(m) on the input named to
WriteMsg(in, to, m) ==
    IF to = "nil" THEN in ELSE [in EXCEPT ![to] = Append(@, m)]

\* the buffers handed to ReadSingle
Singles ==
    {<<>>, <<" ">>, <<"#", "x">>, <<"[", "L", "]">>, <<"[", "R", "U", "]">>,
     <<"[", "]">>, <<"[", "U", "]", NL>>, <<" ", "[", "R", "]">>,
     <<"[", "L">>, <<"{", "}">>, <<"{", "x">>, <<"x">>,
     <<"[", "U", "]", "x">>, <<"[", "#", "]">>}

\* the messages queued on the pipe's inputs
Queued == Len(In.inL) + Len(In.inR)
Ins == [L |-> InputL, R |-> InputR, D |-> InputD]

\* a stage that reads message by message calls eio.ReadSingle(b, cb)
ReadSingle ==
    /\ pc = "attached"
    /\ obs.fed = <<>>
    /\ Queued < MaxMsgs
    /\ \E b \in Singles, cb \in Cbs :
          /\ In' = WriteMsg(In, ReadSingleOf(opt, Ins, b, cb).to,
                            ReadSingleOf(opt, Ins, b, cb).m)
          /\ ret' = [op |-> "ReadSingle", buf |-> b, cbf |-> cb,
                     err |-> ReadSingleOf(opt, Ins, b, cb).err,
                     cb |-> ReadSingleOf(opt, Ins, b, cb).cb, before |-> In]
    /\ UNCHANGED <<sb, opt, InputL, InputR, InputD, buf, obs, pc>>
    /\ UNCHANGED <<Output, Callback, th, rs, tcp>>
    /\ UNCHANGED <<Stages, nid, K, argv>>
    /\ UNCHANGED attVars
    /\ UNCHANGED runVars

\* ------------------------------------------------------------ Extio: ReadBuf
io_ErrUnexpectedEOF == "io.ErrUnexpectedEOF"

\* what ReadBuf has done so far: eio.buf, the inputs, the records handed
\* to ReadSingle, the calls of cb, the error
ReadState(b, in, handed, cb, err) ==
    [buf |-> b, In |-> in, handed |-> handed, cb |-> cb, err |-> err]

\* bytes.IndexByte(b, '\n'), counted from 1; 0 for none
IndexNL(b) ==
    IF Has(b, NL)
    THEN CHOOSE i \in 1..Len(b) : b[i] = NL /\ \A j \in 1..(i - 1) : b[j] # NL
    ELSE 0

\* eio.buf.Next(n): the first n bytes, and what stays buffered
NextLine_NoNewline(b, i) == [line |-> SubSeq(b, 1, i - 1), rest |-> SubSeq(b, i + 1, Len(b))]
NextLine(b, i) == [line |-> SubSeq(b, 1, i), rest |-> SubSeq(b, i + 1, Len(b))]

\* buffer and parse all lines in buf so far
RECURSIVE ReadLines(_, _, _, _)
\* ReadSingle has returned r for the line nx.line
LineRead(o, ins, cb, st, nx, r) ==
    IF r.err # NoErr
    THEN ReadState(nx.rest, st.In, Append(st.handed, nx.line), st.cb + r.cb, r.err)
    ELSE ReadLines(o, ins, cb,
             ReadState(nx.rest, WriteMsg(st.In, r.to, r.m),
                       Append(st.handed, nx.line), st.cb + r.cb, NoErr))
HandLine(o, ins, cb, st, nx) ==
    LineRead(o, ins, cb, st, nx, ReadSingleOf(o, ins, nx.line, cb))
ReadLines(o, ins, cb, st) ==
    IF IndexNL(st.buf) = 0 THEN st
    ELSE HandLine(o, ins, cb, st, NextLine(st.buf, IndexNL(st.buf)))

\* Input.WriteFunc / mrt.Reader.WriteFunc (bgpfix): every frame of b is
\* parsed, checked and written to InputD; a frame cut short gives
\* io.ErrUnexpectedEOF
RECURSIVE WriteFunc(_, _, _, _)
FrameRead(o, ins, cb, st, n, r, c) ==
    IF r.err = ErrSub
    THEN WriteFunc(o, ins, cb, [st EXCEPT !.buf = SubSeq(@, n + 1, Len(@))])
    ELSE WriteFunc(o, ins, cb,
             [st EXCEPT !.buf = SubSeq(@, n + 1, Len(@)),
                        !.In = IF c.ok THEN WriteMsg(@, ins.D, r.m) ELSE @,
                        !.cb = @ + c.cb])
FrameOf(o, ins, cb, st, r) ==
    FrameRead(o, ins, cb, st, r.n, r, Check(o, r.m, cb))
WriteFunc(o, ins, cb, st) ==
    IF Len(st.buf) = 0 THEN st
    ELSE IF FrameLen(st.buf) = 0
    THEN [st EXCEPT !.err = IF st.buf[1] = "[" THEN io_ErrUnexpectedEOF
                             ELSE ErrParse]
    ELSE FrameOf(o, ins, cb, st,
                 IF o.raw THEN FromBytes(st.buf) ELSE MrtFromBytes(st.buf))

\* raw or MRT message(s): wait for more, or parse error?
Framed(o, st, keep) ==
    [st EXCEPT !.buf = keep,
               !.err = IF st.err = io_ErrUnexpectedEOF \/ o.pardon THEN NoErr
                       ELSE st.err]
\* Extio.ReadBuf(chunk, cb)
ReadBufOf(o, ins, chunk, cb, st) ==
    IF o.write THEN st
    ELSE IF o.raw \/ o.mrt
    THEN Framed(o, WriteFunc(o, ins, cb, [st EXCEPT !.buf = chunk]), st.buf)
    ELSE ReadLines(o, ins, cb, [st EXCEPT !.buf = @ \o chunk])

\* the chunks a reader hands to ReadBuf
ChunkBytes == {NL, "[", "]", "x"}
Chunks == UNION {[1..n -> ChunkBytes] : n \in 1..MaxChunk}

\* a stage that reads a stream calls eio.ReadBuf(chunk, cb)
ReadBuf ==
    /\ pc = "attached"
    /\ ret.op # "ReadSingle"
    /\ \E chunk \in Chunks, cb \in Cbs :
          LET st == ReadBufOf(opt, Ins, chunk, cb,
                              ReadState(buf, In, obs.handed, 0, NoErr))
          IN /\ Len(obs.fed) + Len(chunk) <= MaxFed
             /\ buf' = st.buf
             /\ In' = st.In
             /\ obs' = [handed |-> st.handed, fed |-> obs.fed \o chunk]
             /\ ret' = [op |-> "ReadBuf", err |-> st.err, cb |-> st.cb,
                        before |-> In, handed |-> Len(obs.handed)]
    /\ UNCHANGED <<sb, opt, InputL, InputR, InputD, pc>>
    /\ UNCHANGED <<Output, Callback, th, rs, tcp>>
    /\ UNCHANGED <<Stages, nid, K, argv>>
    /\ UNCHANGED attVars
    /\ UNCHANGED runVars

\* the flags and the stage flags an Extio is attached with
ReadKs ==
    {[raw |-> a[1], mrt |-> a[2], read |-> FALSE, write |-> a[3],
      copy |-> FALSE, pardon |-> a[4], type |-> ty] :
        a \in [1..4 -> BOOLEAN], ty \in {{}, {UPDATE}}}
Sbs ==
    {[IsBidir |-> TRUE, IsLast |-> TRUE, IsLeft |-> TRUE],
     [IsBidir |-> TRUE, IsLast |-> FALSE, IsLeft |-> TRUE],
     [IsBidir |-> FALSE, IsLast |-> TRUE, IsLeft |-> TRUE],
     [IsBidir |-> FALSE, IsLast |-> FALSE, IsLeft |-> FALSE]}

\* everything but the Extio at rest
InitIdle ==
    /\ wg = [lwrite |-> 0, lread |-> 0, rwrite |-> 0, rread |-> 0]
    /\ Autos = <<>>
    /\ auto_stdin = Nil
    /\ auto_stdout = Nil
    /\ rt = <<>>
    /\ ctx = [done |-> FALSE, cause |-> "nil"]
    /\ hist = [n |-> 0, first |-> "none", firstNonNil |-> "none"]
    /\ closed = [linput |-> 0, rinput |-> 0, loutput |-> 0, routput |-> 0]
    /\ started = FALSE
    /\ events = 0
    /\ calls = <<>>
    /\ Stages = <<>>
    /\ nid = 0
    /\ K = NoK
    /\ argv = <<>>
    /\ ret = NoRet

InitRead ==
    /\ InitIdle
    /\ pc = "new"
    /\ \E s \in Sbs, k \in ReadKs :
          sb = [IsBidir |-> s.IsBidir, IsLast |-> s.IsLast,
                IsLeft |-> s.IsLeft, k |-> k]
    /\ opt = NoOpts
    /\ InputL = "nil"
    /\ InputR = "nil"
    /\ InputD = "nil"
    /\ In = [inL |-> <<>>, inR |-> <<>>]
    /\ buf = <<>>
    /\ obs = NoObs
    /\ InitOut
    /\ rs = <<>>
    /\ tcp = <<>>

NextRead ==
    \/ ExtioAttach
    \/ ReadSingle
    \/ ReadBuf

SpecRead == InitRead /\ [][NextRead]_vars

\* ------------------------------------------------- properties of the reads
\* the last call was ReadSingle on a stage that is not write-only
SingleRead == ret.op = "ReadSingle" /\ ~opt.write
\* the buffer of the last ReadSingle parsed into a message
GoodParse ==
    /\ SingleRead
    /\ ~Parse(opt, ret.buf).skip
    /\ Parse(opt, ret.buf).err = NoErr
\* ... which passes the type filter, and cb if one was given
Accepted ==
    /\ GoodParse
    /\ checkMsg(opt, Parse(opt, ret.buf).m)
    /\ ret.cbf # "reject"
\* the input the stage's flags and the direction d call for
RouteOf(d) ==
    IF ~sb.IsBidir THEN (IF sb.IsLeft THEN "inL" ELSE "inR")
    ELSE IF d = DIR_L THEN "inL"
    ELSE IF d = DIR_R THEN "inR"
    ELSE IF sb.IsLast THEN "inL" ELSE "inR"

\* C14: ReadSingle enqueues an accepted message on exactly one input, the
\* one of its direction (L, R, else the default), where a unidirectional
\* stage has one input for all three and a bidirectional stage's default
\* is L if it is last and R otherwise; a message the type filter or cb
\* rejects is enqueued nowhere, and cb is not consulted when the type
\* filter rejects.
C14_Routing ==
    /\ Accepted =>
          In = [ret.before EXCEPT ![RouteOf(Parse(opt, ret.buf).m.Dir)] =
                                      Append(@, Parse(opt, ret.buf).m)]
    /\ (GoodParse /\ ~Accepted) => In = ret.before
    /\ (GoodParse /\ ~checkMsg(opt, Parse(opt, ret.buf).m)) => ret.cb = 0
    /\ (pc = "attached" /\ ~opt.write /\ ~sb.IsBidir) =>
          InputL = InputR /\ InputR = InputD

\* a direction-less message went to the L input of a last, bidirectional
\* stage after cb was asked
C14_Witness ==
    /\ Accepted
    /\ sb.IsBidir /\ sb.IsLast
    /\ Parse(opt, ret.buf).m.Dir = DIR_0
    /\ ret.cb = 1
    /\ Len(In.inL) = Len(ret.before.inL) + 1

\* the buffer of the last ReadSingle is one that is skipped silently
Skipped ==
    /\ SingleRead
    /\ \/ /\ ~opt.raw /\ ~opt.mrt
          /\ (TrimSpace(ret.buf) = <<>> \/ TrimSpace(ret.buf)[1] = "#")
       \/ /\ ~opt.raw /\ opt.mrt
          /\ MrtFromBytes(ret.buf).err = ErrSub
\* the buffer of the last ReadSingle fails to parse
BadParse == SingleRead /\ ~Skipped /\ Parse(opt, ret.buf).err # NoErr

\* C15: an input that fails to parse in ReadSingle enqueues nothing and
\* returns nil with --pardon, the parse error without; empty lines, "#"
\* lines and MRT records without a message return nil whatever --pardon;
\* in write-only mode ReadSingle and ReadBuf return nil and enqueue
\* nothing.
C15_ParseErrors ==
    /\ BadParse =>
          /\ In = ret.before
          /\ ret.err = IF opt.pardon THEN NoErr ELSE Parse(opt, ret.buf).err
          /\ Parse(opt, ret.buf).err \in {ErrParse, ErrLength, ErrFormat}
    /\ Skipped => In = ret.before /\ ret.err = NoErr
    /\ (ret.op \in {"ReadSingle", "ReadBuf"} /\ opt.write) =>
          /\ In = ret.before
          /\ ret.err = NoErr
          /\ obs.handed = <<>>

\* dangling bytes after a raw message were pardoned
C15_Witness ==
    /\ BadParse
    /\ opt.raw /\ opt.pardon
    /\ Parse(opt, ret.buf).err = ErrLength
    /\ ret.err = NoErr

\* the concatenation of the records
RECURSIVE Flatten(_)
Flatten(ls) == IF ls = <<>> THEN <<>> ELSE Head(ls) \o Flatten(Tail(ls))
\* b is one newline-terminated line
IsLine(b) == Len(b) > 0 /\ IndexNL(b) = Len(b)
\* ReadBuf works in text mode
TextMode == pc = "attached" /\ ~opt.write /\ ~opt.raw /\ ~opt.mrt

\* C20: in text mode, whatever the chunks, the records ReadBuf has handed
\* to ReadSingle are newline-terminated lines which, followed by the bytes
\* still buffered, make up the bytes received so far; when ReadBuf
\* returns nil no newline stays buffered; when it returns an error the
\* error is the one ReadSingle returned for the last record handed over,
\* in this very call.
C20_Lines ==
    TextMode =>
        /\ \A i \in 1..Len(obs.handed) : IsLine(obs.handed[i])
        /\ Flatten(obs.handed) \o buf = obs.fed
        /\ (ret.op = "ReadBuf" /\ ret.err = NoErr) => ~Has(buf, NL)
        /\ (ret.op = "ReadBuf" /\ ret.err # NoErr) =>
              /\ Len(obs.handed) > ret.handed
              /\ ReadSingleOf(opt, Ins, obs.handed[Len(obs.handed)], "nil").err
                    = ret.err

\* a line cut in two by the chunks was handed over whole, and an error
\* left a later line buffered
C20_Witness ==
    /\ TextMode
    /\ ret.op = "ReadBuf"
    /\ ret.err # NoErr
    /\ Len(obs.handed) = 1
    /\ Len(obs.handed[1]) > MaxChunk
    /\ Has(buf, NL)

\* --------------------------------------------------------- Extio: ReadStream
\* 64*1024, the length of the buffer ReadStream starts with
InitBufLen == 65536
\* 4*1024*1024, the length the growth test compares with
MaxBufLen == 4194304
io_EOF == "io.EOF"
ErrRead == "read error"

\* the numbers of bytes a read into a buffer of l bytes is let to return
ReadSizes(l) == {0, 1, l \div 2, (l \div 2) + 1, l}

\* should stop here?  "go on" if not, else what ReadStream returns
ShouldStop(parse_err, err) ==
    IF parse_err # NoErr THEN parse_err
    ELSE IF err = io_EOF THEN NoErr
    ELSE IF err # NoErr THEN err
    ELSE "go on"

\* grow buffer?  the length of the buffer after a read of n bytes
GrowBuffer(l, n) ==
    IF n > l \div 2 /\ l <= MaxBufLen THEN l * 2 ELSE l

\* one turn of ReadStream's loop: rd.Read(buf) returns n bytes and err,
\* ReadBuf(buf[:n], cb) returns perr if called
StreamStep(r, n, err, perr) ==
    IF ShouldStop(IF n > 0 THEN perr ELSE NoErr, err) # "go on"
    THEN [l |-> r.l, prev |-> r.l, n |-> n, reads |-> r.reads + 1,
          st |-> "returned",
          err |-> ShouldStop(IF n > 0 THEN perr ELSE NoErr, err)]
    ELSE [l |-> GrowBuffer(r.l, n), prev |-> r.l, n |-> n,
          reads |-> r.reads + 1, st |-> "reading", err |-> NoErr]

\* Extio.ReadStream, one turn of its loop
ReadStream ==
    /\ pc = "stream"
    /\ rs.st = "reading"
    /\ rs.reads < MaxReads
    /\ \E n \in ReadSizes(rs.l), err \in {NoErr, io_EOF, ErrRead},
          perr \in {NoErr, ErrParse} :
          rs' = StreamStep(rs, n, err, perr)
    /\ UNCHANGED <<sb, opt, InputL, InputR, InputD, In, buf, obs, Output,
                   Callback, th, tcp>>
    /\ UNCHANGED cfgVars
    /\ UNCHANGED attVars
    /\ UNCHANGED runVars

InitReadStream ==
    /\ InitIdle
    /\ pc = "stream"
    /\ InitEio
    /\ InitOut
    /\ rs = [l |-> InitBufLen, prev |-> InitBufLen, n |-> 0, reads |-> 0,
             st |-> "reading", err |-> NoErr]
    /\ tcp = <<>>

NextReadStream == ReadStream

SpecReadStream == InitReadStream /\ [][NextReadStream]_vars

\* C16: ReadStream's buffer starts at 64 KiB and only changes by
\* doubling, it is doubled only after a read that filled more than half
\* of it, and it is never longer than 4 MiB.
C16_Buffer ==
    pc = "stream" =>
        /\ rs.reads = 0 => rs.l = InitBufLen
        /\ rs.l # rs.prev => rs.l = 2 * rs.prev /\ 2 * rs.n > rs.prev
        /\ rs.l <= MaxBufLen

\* ------------------------------------------------------------ Extio: egress
\* The goroutines at the egress: the pipe runs the callbacks of its L and
\* of its R direction, each of which calls SendMsg up to MaxSends times;
\* OutputClose is called by the stage, by the watcher of a wait-group and
\* by WriteStream after a write error; one goroutine runs WriteStream.
\* eio.Output holds at most MaxQueue buffers here (100 in NewExtio).
Senders == {"L", "R"}
Closers == {"WriteStream", "stage", "watcher"}

\* a sender before its first SendMsg
NoSend ==
    [pc |-> "idle", calls |-> 0, eff |-> FALSE, saw |-> FALSE,
     dropped |-> FALSE, ser |-> FALSE, enq |-> FALSE, found |-> FALSE,
     cbDrop |-> FALSE]
\* Get and Put count the calls of eio.Pool.Get() and eio.Pool.Put(bb)
NoSent ==
    [sent |-> 0, closeRet |-> FALSE, sentAtRet |-> 0, Get |-> 0, Put |-> 0]

\* bb := eio.Pool.Get()
PoolGet(p) == [p EXCEPT !.Get = @ + 1]
\* eio.Pool.Put(bb)
PoolPut(p) == [p EXCEPT !.Put = @ + 1]

\* send_safe(ch, bb): the send, which fails on a closed channel instead
\* of panicking
send_safe(out, bb) ==
    IF out.closed THEN [out |-> out, ok |-> FALSE, panic |-> FALSE]
    ELSE [out |-> [out EXCEPT !.q = Append(@, bb)], ok |-> TRUE,
          panic |-> FALSE]
\* the send can proceed: the channel is closed or has room
CanSend(out) == out.closed \/ Len(out.q) < MaxQueue
\* close_safe(ch): the close, which does nothing on a closed channel
\* instead of panicking
close_safe(out) ==
    [out |-> [out EXCEPT !.closed = TRUE,
                         !.closes = IF out.closed THEN @ ELSE @ + 1],
     panic |-> FALSE]

\* --read is in effect for a call that starts now: by the flag, or by an
\* OutputClose that has returned
ReadInEffect == opt.read /\ (sb.k.read \/ obs.closeRet)
\* what a sender may read in eio.opt_read, which OutputClose writes
\* without synchronisation: while the first OutputClose is under way the
\* old value as well as the new one
ReadSeen ==
    IF opt.read /\ ~ReadInEffect THEN {TRUE, FALSE} ELSE {opt.read}

\* filter the message?  the message context's action after the test
MarkDrop(o) == ~o.copy

\* SendMsg: read-only from process?  filter the message?
SendMsgCall(i) ==
    /\ pc = "attached"
    /\ th.snd[i].pc \in {"idle", "ret"}
    /\ th.snd[i].calls < MaxSends
    /\ \E saw \in ReadSeen :
          th' = [th EXCEPT !.snd[i] =
                    [pc |-> IF saw THEN "ret" ELSE "ser",
                     calls |-> th.snd[i].calls + 1,
                     eff |-> ReadInEffect, saw |-> saw,
                     dropped |-> ~saw /\ MarkDrop(opt),
                     ser |-> FALSE, enq |-> FALSE, found |-> FALSE,
                     cbDrop |-> FALSE]]
    /\ UNCHANGED <<sb, opt, InputL, InputR, InputD, In, buf, obs, Output,
                   Callback, rs, tcp>>
    /\ UNCHANGED cfgVars
    /\ UNCHANGED attVars
    /\ UNCHANGED runVars

\* SendMsg: a buffer is taken from the pool and the message is copied to
\* it, which fails, panics on the MRT TODO or succeeds
SendMsgSerialize(i) ==
    /\ pc = "attached"
    /\ th.snd[i].pc = "ser"
    /\ obs' = PoolGet(obs)
    /\ \E ok \in BOOLEAN :
          th' = [th EXCEPT !.snd[i].ser = TRUE,
                           !.snd[i].pc = IF ~opt.raw /\ opt.mrt THEN "todo"
                                         ELSE IF ok THEN "send" ELSE "ret"]
    /\ UNCHANGED <<sb, opt, InputL, InputR, InputD, In, buf, Output,
                   Callback, rs, tcp>>
    /\ UNCHANGED cfgVars
    /\ UNCHANGED attVars
    /\ UNCHANGED runVars

\* the callback left alone whatever the send did
SendFailed_Keep(cb, ok) == [cb |-> cb, asked |-> FALSE]
\* after the send: mx.Callback.Drop() if it failed
SendFailed(cb, ok) ==
    IF ok THEN [cb |-> cb, asked |-> FALSE]
    ELSE [cb |-> [cb EXCEPT !.dropped = TRUE], asked |-> TRUE]

\* SendMsg: try writing, don't panic on channel closed
SendMsgSend(i) ==
    /\ pc = "attached"
    /\ th.snd[i].pc = "send"
    /\ CanSend(Output)
    /\ Output' = send_safe(Output, i).out
    /\ Callback' = SendFailed(Callback,
                       send_safe(Output, i).ok).cb
    /\ th' = [th EXCEPT
                 !.snd[i].pc =
                     IF send_safe(Output, i).panic
                     THEN "panic" ELSE "ret",
                 !.snd[i].enq = Len(Output'.q) > Len(Output.q),
                 !.snd[i].found = Output.closed,
                 !.snd[i].cbDrop =
                     SendFailed(Callback,
                         send_safe(Output, i).ok).asked]
    /\ obs' = [obs EXCEPT !.sent = @ + Len(Output'.q) - Len(Output.q)]
    /\ UNCHANGED <<sb, opt, InputL, InputR, InputD, In, buf, rs, tcp>>
    /\ UNCHANGED cfgVars
    /\ UNCHANGED attVars
    /\ UNCHANGED runVars

\* OutputClose is called by closer j: eio.opt_read = true
OutputCloseCall(j) ==
    /\ pc = "attached"
    /\ Callback.set
    /\ j # "WriteStream"
    /\ th.cls[j] = "idle"
    /\ opt' = [opt EXCEPT !.read = TRUE]
    /\ th' = [th EXCEPT !.cls[j] = "cb"]
    /\ UNCHANGED <<sb, InputL, InputR, InputD, In, buf, obs, Output,
                   Callback, rs, tcp>>
    /\ UNCHANGED cfgVars
    /\ UNCHANGED attVars
    /\ UNCHANGED runVars

\* OutputClose: eio.Callback.Drop()
OutputCloseDrop(j) ==
    /\ pc = "attached"
    /\ th.cls[j] = "cb"
    /\ Callback' = [Callback EXCEPT !.dropped = TRUE]
    /\ th' = [th EXCEPT !.cls[j] = "close"]
    /\ UNCHANGED <<sb, opt, InputL, InputR, InputD, In, buf, obs, Output,
                   rs, tcp>>
    /\ UNCHANGED cfgVars
    /\ UNCHANGED attVars
    /\ UNCHANGED runVars

\* OutputClose: close_safe(eio.Output), return nil
OutputCloseChan(j) ==
    /\ pc = "attached"
    /\ th.cls[j] = "close"
    /\ Output' = close_safe(Output).out
    /\ th' = [th EXCEPT !.cls[j] = IF close_safe(Output).panic THEN "panic"
                                   ELSE "done"]
    /\ obs' = IF obs.closeRet THEN obs
              ELSE [obs EXCEPT !.closeRet = TRUE, !.sentAtRet = obs.sent]
    /\ UNCHANGED <<sb, opt, InputL, InputR, InputD, In, buf, Callback, rs,
                   tcp>>
    /\ UNCHANGED cfgVars
    /\ UNCHANGED attVars
    /\ UNCHANGED runVars

\* WriteStream: the next buffer of eio.Output is written to w and put
\* back to the pool; on a write error OutputClose is called; the loop
\* ends when the channel is closed and empty
WriteStream ==
    /\ pc = "attached"
    /\ th.wr.pc = "range"
    /\ \/ /\ Output.q # <<>>
          /\ Output' = [Output EXCEPT !.q = Tail(@)]
          /\ obs' = PoolPut(obs)
          /\ \/ /\ th' = th
                /\ opt' = opt
             \/ /\ th' = [th EXCEPT !.wr.pc = "closing",
                                    !.cls["WriteStream"] = "cb"]
                /\ opt' = [opt EXCEPT !.read = TRUE]
       \/ /\ Output.q = <<>>
          /\ Output.closed
          /\ th' = [th EXCEPT !.wr.pc = "ret", !.wr.err = NoErr]
          /\ UNCHANGED <<Output, opt, obs>>
    /\ UNCHANGED <<sb, InputL, InputR, InputD, In, buf, Callback, rs, tcp>>
    /\ UNCHANGED cfgVars
    /\ UNCHANGED attVars
    /\ UNCHANGED runVars

\* WriteStream: its OutputClose has returned, return err
WriteStreamReturn ==
    /\ pc = "attached"
    /\ th.wr.pc = "closing"
    /\ th.cls["WriteStream"] = "done"
    /\ th' = [th EXCEPT !.wr.pc = "ret", !.wr.err = "write error"]
    /\ UNCHANGED <<sb, opt, InputL, InputR, InputD, In, buf, obs, Output,
                   Callback, rs, tcp>>
    /\ UNCHANGED cfgVars
    /\ UNCHANGED attVars
    /\ UNCHANGED runVars

\* the flags an Extio's egress is attached with
SendKs ==
    {[raw |-> a[1], mrt |-> a[2], read |-> a[3], write |-> a[4],
      copy |-> a[5], pardon |-> FALSE, type |-> {}] :
        a \in [1..5 -> BOOLEAN]}

InitSend ==
    /\ InitIdle
    /\ pc = "new"
    /\ \E k \in SendKs : sb = [NoSb EXCEPT !.k = k]
    /\ opt = NoOpts
    /\ InputL = "nil"
    /\ InputR = "nil"
    /\ InputD = "nil"
    /\ In = [inL |-> <<>>, inR |-> <<>>]
    /\ buf = <<>>
    /\ obs = NoSent
    /\ Output = [q |-> <<>>, closed |-> FALSE, closes |-> 0]
    /\ Callback = [set |-> FALSE, dropped |-> FALSE]
    /\ th = [snd |-> [i \in Senders |-> NoSend],
             cls |-> [j \in Closers |-> "idle"],
             wr |-> [pc |-> "range", err |-> NoErr]]
    /\ rs = <<>>
    /\ tcp = <<>>

NextSend ==
    \/ ExtioAttach
    \/ \E i \in Senders : SendMsgCall(i)
    \/ \E i \in Senders : SendMsgSerialize(i)
    \/ \E i \in Senders : SendMsgSend(i)
    \/ \E j \in Closers : OutputCloseCall(j)
    \/ \E j \in Closers : OutputCloseDrop(j)
    \/ \E j \in Closers : OutputCloseChan(j)
    \/ WriteStream
    \/ WriteStreamReturn

SpecSend == InitSend /\ [][NextSend]_vars

\* ------------------------------------------------ properties of the egress
\* --copy is in effect: given, or forced by --read / --write
CopyInEffect == sb.k.copy \/ sb.k.read \/ sb.k.write
\* the senders that have called SendMsg
Sending == {i \in Senders : th.snd[i].calls > 0}

C18_CloseSafe ==
    pc = "attached" =>
        /\ Output.closes <= 1
        /\ Output.closed = (Output.closes = 1)
        /\ \A i \in Senders : th.snd[i].pc # "panic"
        /\ \A j \in Closers : th.cls[j] # "panic"
        /\ \A i \in Sending :
              (th.snd[i].pc = "ret" /\ th.snd[i].found) =>
                  /\ th.snd[i].cbDrop
                  /\ ~th.snd[i].enq
                  /\ Callback.dropped
        /\ obs.closeRet => obs.sent = obs.sentAtRet /\ Output.closed

\* two OutputClose calls have returned, and a SendMsg that was under way
\* found the channel closed
C18_Witness ==
    /\ pc = "attached"
    /\ th.cls["stage"] = "done" /\ th.cls["watcher"] = "done"
    /\ \E i \in Sending :
          /\ th.snd[i].pc = "ret"
          /\ th.snd[i].found /\ th.snd[i].cbDrop /\ ~th.snd[i].saw
    /\ obs.sent > 0

\* --------------------------------------------------------------- tcp_handle
\* The two pumps of tcp_handle: the reader copies conn to s.Upstream(),
\* the writer copies s.Downstream() to conn.  Each ends with nil, io.EOF
\* or another error, half-closes its direction and reports on its channel
\* (rch, wch: capacity 1).
Pumps == {"reader", "writer"}
ErrNet == "net error"
ErrNoTCP == "could not get TCPConn"
PumpErrs == {NoErr, io_EOF, ErrNet}

NoTcp(isTcp) ==
    [conn |-> [isTcp |-> isTcp, closed |-> FALSE, CloseRead |-> FALSE,
               CloseWrite |-> FALSE],
     pump |-> [p \in Pumps |-> [st |-> "none", err |-> NoErr]],
     ch |-> [p \in Pumps |-> <<>>],
     got |-> [p \in Pumps |-> "none"],
     running |-> 0, st |-> "new", result |-> NoErr, by |-> "none"]

\* tcp_handle returns err by the path by; the deferred conn.Close() runs
TcpReturn(t, err, by) ==
    [t EXCEPT !.st = "returned", !.result = err, !.by = by,
              !.conn.closed = TRUE]

\* what tcp_handle, its pumps and its context leave alone
TcpFrame ==
    /\ UNCHANGED <<sb, opt, InputL, InputR, InputD, In, buf, obs, Output,
                   Callback, th, rs>>
    /\ UNCHANGED cfgVars
    /\ UNCHANGED attVars
    /\ UNCHANGED <<rt, hist, closed, started, events, calls>>

\* tcp_handle up to the select loop: get tcp conn, start the pumps
TcpStart ==
    /\ pc = "tcp"
    /\ tcp.st = "new"
    /\ tcp' = IF ~tcp.conn.isTcp THEN TcpReturn(tcp, ErrNoTCP, "conn")
              ELSE [tcp EXCEPT !.st = "select", !.running = 2,
                               !.pump = [p \in Pumps |->
                                            [st |-> "copy", err |-> NoErr]]]
    /\ UNCHANGED ctx
    /\ TcpFrame

\* io.Copy / tcp.ReadFrom of pump p returns err
PumpEnd(p) ==
    /\ pc = "tcp"
    /\ tcp.pump[p].st = "copy"
    /\ \E err \in PumpErrs :
          tcp' = [tcp EXCEPT !.pump[p] = [st |-> "close", err |-> err]]
    /\ UNCHANGED ctx
    /\ TcpFrame

\* the half-close of pump p: tcp.CloseRead() / tcp.CloseWrite()
HalfClose(c, p) ==
    IF p = "reader" THEN [c EXCEPT !.CloseRead = TRUE]
    ELSE [c EXCEPT !.CloseWrite = TRUE]
PumpClose(p) ==
    /\ pc = "tcp"
    /\ tcp.pump[p].st = "close"
    /\ tcp' = [tcp EXCEPT !.pump[p].st = "report",
                          !.conn = HalfClose(tcp.conn, p)]
    /\ UNCHANGED ctx
    /\ TcpFrame

\* the send on an unbuffered channel, which needs tcp_handle in its
\* select and nothing sent before it
CanReport_Unbuffered(t, p) == t.st = "select" /\ t.ch[p] = <<>>
\* the send on rch / wch can proceed: make(chan retval, 1) has room
CanReport(t, p) == Len(t.ch[p]) < 1

\* pump p reports: rch <- retval{n, err} / wch <- retval{n, err}
PumpReport(p) ==
    /\ pc = "tcp"
    /\ tcp.pump[p].st = "report"
    /\ CanReport(tcp, p)
    /\ tcp' = [tcp EXCEPT !.pump[p].st = "done",
                          !.ch[p] = Append(@, tcp.pump[p].err)]
    /\ UNCHANGED ctx
    /\ TcpFrame

\* every error ends tcp_handle, io.EOF too
Fatal_EOF(err) == err # NoErr
\* the error of a pump ends tcp_handle
Fatal(err) == err # NoErr /\ err # io_EOF

\* the select loop has received err from pump p
Received(t, p, err) ==
    IF Fatal(err)
    THEN TcpReturn([t EXCEPT !.ch[p] = Tail(@), !.got[p] = err,
                             !.running = @ - 1], err, p)
    ELSE IF t.running - 1 > 0
    THEN [t EXCEPT !.ch[p] = Tail(@), !.got[p] = err, !.running = @ - 1]
    ELSE TcpReturn([t EXCEPT !.ch[p] = Tail(@), !.got[p] = err,
                             !.running = @ - 1], NoErr, "eof")

\* select: case r := <-rch / case w := <-wch
TcpSelectPump(p) ==
    /\ pc = "tcp"
    /\ tcp.st = "select"
    /\ tcp.ch[p] # <<>>
    /\ tcp' = Received(tcp, p, Head(tcp.ch[p]))
    /\ UNCHANGED ctx
    /\ TcpFrame

\* select: case <-s.Ctx.Done()
TcpSelectDone ==
    /\ pc = "tcp"
    /\ tcp.st = "select"
    /\ ctx.done
    /\ tcp' = TcpReturn(tcp, ctx.cause, "ctx")
    /\ UNCHANGED ctx
    /\ TcpFrame

\* the stage's context is cancelled with cause
TcpCancel ==
    /\ pc = "tcp"
    /\ \E cause \in Causes : ctx' = CancelCtx(ctx, cause)
    /\ ctx' # ctx
    /\ UNCHANGED tcp
    /\ TcpFrame

InitTcp ==
    /\ InitIdle
    /\ pc = "tcp"
    /\ InitEio
    /\ InitOut
    /\ rs = <<>>
    /\ \E isTcp \in BOOLEAN : tcp = NoTcp(isTcp)

NextTcp ==
    \/ TcpStart
    \/ \E p \in Pumps : PumpEnd(p)
    \/ \E p \in Pumps : PumpClose(p)
    \/ \E p \in Pumps : PumpReport(p)
    \/ \E p \in Pumps : TcpSelectPump(p)
    \/ TcpSelectDone
    \/ TcpCancel

SpecTcp == InitTcp /\ [][NextTcp]_vars

\* the pump goroutines are scheduled: a pump that can half-close or
\* report does so
SpecTcpLive ==
    /\ SpecTcp
    /\ \A p \in Pumps : WF_vars(PumpClose(p)) /\ WF_vars(PumpReport(p))

\* C19: tcp_handle returns nil only after both pumps have reported, each
\* with nil or io.EOF; io.EOF from one pump does not end it; the error it
\* returns by a pump's report is that pump's error, which is not io.EOF,
\* returned as soon as it is received; by cancellation it returns the
\* context's cause; a pump has half-closed its direction (the reader
\* CloseRead, the writer CloseWrite) before it reports; and the
\* connection is closed whenever tcp_handle has returned.
C19_Handle ==
    pc = "tcp" =>
        /\ (tcp.st = "returned" /\ tcp.by = "eof") =>
              /\ tcp.result = NoErr
              /\ \A p \in Pumps : tcp.got[p] \in {NoErr, io_EOF}
              /\ \A p \in Pumps : tcp.pump[p].st = "done"
        /\ (tcp.st = "returned" /\ tcp.result = NoErr) =>
              tcp.by = "eof" \/ (tcp.by = "ctx" /\ ctx.cause = NoErr)
        /\ (tcp.st = "returned" /\ tcp.by \in Pumps) =>
              /\ tcp.result = tcp.got[tcp.by]
              /\ tcp.result = tcp.pump[tcp.by].err
              /\ tcp.result \notin {NoErr, io_EOF}
        /\ tcp.st = "select" =>
              \A p \in Pumps : tcp.got[p] \in {"none", NoErr, io_EOF}
        /\ (tcp.st = "returned" /\ tcp.by = "ctx") =>
              ctx.done /\ tcp.result = ctx.cause
        /\ tcp.pump["reader"].st \in {"report", "done"} => tcp.conn.CloseRead
        /\ tcp.pump["writer"].st \in {"report", "done"} => tcp.conn.CloseWrite
        /\ \A p \in Pumps : tcp.pump[p].st \in {"none", "copy", "close"} =>
              tcp.ch[p] = <<>> /\ tcp.got[p] = "none"
        /\ tcp.st = "returned" => tcp.conn.closed

\* the reader ended with io.EOF first, tcp_handle went on waiting and
\* returned nil after the writer ended
C19_Witness ==
    /\ pc = "tcp"
    /\ tcp.st = "returned"
    /\ tcp.by = "eof"
    /\ tcp.got["reader"] = io_EOF
    /\ tcp.got["writer"] = NoErr
    /\ tcp.conn.CloseRead /\ tcp.conn.CloseWrite

\* ------------------------------------------------------- the buffer pool
\* the adapter has shut down: Output is closed, WriteStream has returned,
\* and no SendMsg and no OutputClose is under way
ShutDown ==
    /\ pc = "attached"
    /\ Output.closed
    /\ th.wr.pc = "ret"
    /\ \A i \in Senders : th.snd[i].pc \in {"idle", "ret"}
    /\ \A j \in Closers : th.cls[j] \in {"idle", "done"}

\* C21: once the adapter has shut down, every buffer that SendMsg took
\* from the pool has been put back: the number of Pool.Get calls equals
\* the number of Pool.Put calls.
C21_PoolEquilibrium == ShutDown => obs.Get = obs.Put

\* -------------------------------------------------------- first and last
\* the user stages of S flagged IsFirst, and those flagged IsLast
FirstSet(S) == {i \in UserIdx(S) : At(S, i).IsFirst}
LastSet(S) == {i \in UserIdx(S) : At(S, i).IsLast}

\* C22: after a successful Attach of a pipeline with at least one user
\* stage, exactly one stage is flagged IsFirst, the one at the lowest
\* position, and exactly one is flagged IsLast, the one at the highest
\* position (a single stage is both); the automatic stages are flagged
\* neither.
C22_FirstLast ==
    (pc = "attached" /\ ret.err = NoErr /\ UserIdx(Stages) # {}) =>
        /\ FirstSet(Stages) = {Lowest(UserIdx(Stages))}
        /\ LastSet(Stages) = {Highest(UserIdx(Stages))}
        /\ \A a \in 1..Len(Autos) :
              ~Autos[a].IsFirst /\ ~Autos[a].IsLast

SendOver(i) == th.snd[i].pc \in {"ret", "todo", "panic"}

\* C24: a message that SendMsg has marked dropped from the pipe has been
\* enqueued on Output by the time the call is over, whether serialization
\* failed, the mode is --mrt or the channel was found closed.
C24_NoLoss ==
    pc = "attached" =>
        \A i \in Sending :
            (SendOver(i) /\ th.snd[i].dropped) => th.snd[i].enq

\* ------------------------------------------------------ the pumps' reports
\* the values pump p has sent: those on its channel and the one received
SentBy(p) == Len(tcp.ch[p]) + (IF tcp.got[p] = "none" THEN 0 ELSE 1)

\* each pump sends at most one value, exactly one once it is done, and a
\* pump that is about to report finds room on its channel
OneReport ==
    \A p \in Pumps :
        /\ SentBy(p) <= 1
        /\ tcp.pump[p].st = "done" => SentBy(p) = 1
        /\ tcp.pump[p].st = "report" => SentBy(p) = 0 /\ CanReport(tcp, p)

\* C25: each pump of tcp_handle sends exactly one value on its channel
\* and is never blocked in the send: a pump whose copy has returned
\* reports and ends, also after tcp_handle has returned because of the
\* other pump's error or of the cancelled context.
C25_PumpsEnd ==
    /\ []OneReport
    /\ \A p \in Pumps :
          (tcp.pump[p].st \in {"close", "report"}) ~> (tcp.pump[p].st = "done")

\* tcp_handle has returned on the writer's error or on the cancelled
\* context, and the reader has reported since: its value stays on rch
C25_Witness ==
    /\ pc = "tcp"
    /\ tcp.st = "returned"
    /\ tcp.by \in {"writer", "ctx"}
    /\ tcp.pump["reader"].st = "done"
    /\ tcp.ch["reader"] # <<>>
    /\ tcp.got["reader"] = "none"
====
